---- MODULE Spec2Model ----
(***************************************************************************)
(* react-use: the useAnimation hook (src/src/hooks/useAnimation/index.ts)  *)
(* and the animation engine it binds to React's render cycle, followed by  *)
(* the state hooks useData, useCache, usePromise and useDebouncedCallback. *)
(*                                                                         *)
(* The hook is translated from its source.  The engine it imports          *)
(* (create, restart, destroy, onChange, timing, wait, waitUntil, parallel, *)
(* any, chain, sequence, loop) has no source in the repository; it is      *)
(* modelled from sections 4.4 - 4.6 and 5 of the specification.            *)
(*                                                                         *)
(* Numbers: animated values are fixed-point, in thousandths (1.0 = 1000),  *)
(* times are integer milliseconds of scheduler time.                       *)
(***************************************************************************)
EXTENDS Integers, Sequences, FiniteSets, TLC

\* ------------------------------------------------------------------ bounds
\* number of schedulers one hook instance may create (mount + dep changes)
MaxSched == 2

\* milliseconds between two animation frames
FrameDeltas == {50, 100}
\* the same, with a frame of a 60 Hz display among them
FineDeltas == {16, 50, 100}
\* values a dependency list can take
DepValues == {"d1", "d2"}
\* hook instance life cycle: before the first render, rendered, unmounted
Unmounted == "no"
Mounted == "yes"
Gone == "gone"

\* useData: number of entries a history may hold before pushes stop
MaxHistory == 3
\* useData: the values the field `value` of the shared object takes
DataValues == {0, 1, 2}
\* useData: the context keys in use
DataKeys == {"k1", "k2"}

\* useCache: the values passed to setValue
CacheValues == {0, 1, 2}

\* usePromise: number of times one hook instance may call its callback
MaxPromises == 3
\* usePromise: JavaScript's undefined
Undefined == "undefined"
\* usePromise: how the promise returned by the callback settles: resolved
\* with a value, resolved with an Error object, rejected
Outcomes == {"value", "errorValue", "reject"}

\* useDebouncedCallback: number of setTimeout calls
MaxTimers == 4
\* useDebouncedCallback: the delays passed to the hook, in units of time
Delays == {2, 3}
\* useDebouncedCallback: the time that passes in one step
Ticks == {1, 2}
\* useDebouncedCallback: the arguments of the debounced function
Args == {"a", "b"}

\* useDebouncedEffect: number of setTimeout calls
MaxEffectTimers == 4

\* useLocalStorage: the values passed to setValue
StorageValues == {0, 1, 2}
\* useLocalStorage: what getItem and Map.get give for a key they do not hold
NoItem == "null"

\* useEventEmitter: number of executions of the callback
MaxEmits == 4

\* useSubscribeEvent: number of runs of the effect (handlers created)
MaxHandlers == 4
\* useSubscribeEvent: number of calls of the callback
MaxSubCalls == 3
\* useSubscribeEvent: the events of the scope
Events == {"e1", "e2"}

\* useRefObserver: number of runs of effect
MaxObserverRuns == 4
\* useRefObserver: the values assigned to ref.current
RefValues == {"x", "y"}

\* useEventListener: the targets; Window is the default target
Window == "window"
Elements == {"div1", "div2"}
\* useEventListener: no element argument, and a null value
NoElement == "none"
Null == "null"

\* useCountdown: the latest target and start time, the longest interval
\* option (in seconds), the number of renders caused by the parent
MaxTarget == 4
MaxInterval == 2
MaxParentRenders == 2
\* useCountdown: the clock stops where every timeout set before the target
\* has had the time to fire
MaxClock == MaxTarget + MaxInterval
\* useCountdown: options.startDate and options.interval left out
Now == -1
Dynamic == 0
NoTimer == -1

\* useSharedValue, useSharedValues: number of writes to a value or a group
MaxWrites == 3
\* useSharedValue, useSharedValues: the values written, the fields of the
\* group, the two hooks
SharedNumbers == {0, 1}
SharedKeys == {"x", "opacity"}
SharedHooks == {"useSharedValue", "useSharedValues"}

\* useCallbackRef: number of calls of the returned function
MaxCalls == 3
\* useCallbackRef: the callbacks passed to the hook
Callbacks == {"f", "g", Undefined}

\* dom().margin: the largest margin value, the definitions of 1 to 4 values
\* and the shorter ones used as config.to
MaxMargin == 2
MarginDefinition == UNION {[1..n -> 0..MaxMargin] : n \in 1..4}
MarginTo == UNION {[1..n -> 0..MaxMargin] : n \in 1..2}

\* history: the length of the browser history stack, the number of
\* navigations, the listener functions
MaxStack == 3
MaxNavigations == 3
HistoryListenerIds == {1, 2, 3}
\* history: the deltas passed to go(); back() is go(-1), forward() is go(1)
Deltas == {-2, -1, 1, 2}

\* ------------------------------------------------------ animation programs
Node(kind) ==
    [kind |-> kind, target |-> "opacity", hasFrom |-> FALSE, from |-> 0, to |-> 0,
     duration |-> 0, invert |-> FALSE, bounded |-> FALSE, iterations |-> 0,
     kids |-> <<>>]

Timing(target, to, duration) ==
    [Node("timing") EXCEPT !.target = target, !.to = to, !.duration = duration]

TimingFrom(target, from, to, duration) ==
    [Timing(target, to, duration) EXCEPT !.hasFrom = TRUE, !.from = from]

Wait(duration) == [Node("wait") EXCEPT !.duration = duration]

WaitUntil(flag, invert) == [Node("waitUntil") EXCEPT !.target = flag, !.invert = invert]

Parallel(kids) == [Node("parallel") EXCEPT !.kids = kids]

All(kids) == Parallel(kids)

AnyOf(kids) == [Node("any") EXCEPT !.kids = kids]

Chain(kids) == [Node("chain") EXCEPT !.kids = kids]

\* c0, wait, c1, wait, ..., cn: a wait between two children, none before the
\* first and none after the last
RECURSIVE Interleave(_, _)
Interleave(kids, gap) ==
    IF Len(kids) <= 1 THEN kids
    ELSE <<Head(kids), gap>> \o Interleave(Tail(kids), gap)

\* sequence without the waits
SequenceNoGap(delayMs, kids) == [Node("sequence") EXCEPT !.kids = kids]

Sequence(delayMs, kids) ==
    [Node("sequence") EXCEPT !.kids = Interleave(kids, Wait(delayMs))]

Loop(iterations, factory) ==
    [Node("loop") EXCEPT !.bounded = TRUE, !.iterations = iterations, !.kids = <<factory>>]

LoopForever(factory) == [Node("loop") EXCEPT !.kids = <<factory>>]

\* ------------------------------------------------------------ step runtime
\* st: "new" (created), "run" (suspended), "done", "cancel"
\* el: scheduler time elapsed since the step started, i.e. tick time minus
\*     the step's start time; kept for the steps of finite duration
\* a step that was created and not yet resumed
Fresh == [st |-> "new", el |-> 0, from |-> 0, i |-> 0, kids |-> <<>>]

Cancel(r) == IF r.st \in {"new", "run"} THEN [r EXCEPT !.st = "cancel"] ELSE r

Elapsed(r, d) == IF r.st = "new" THEN 0 ELSE r.el + d

\* the interpolation eased by the quadratic curve instead of the linear one
TimingValueQuad(from, to, duration, elapsed) ==
    IF duration = 0 \/ elapsed >= duration THEN to
    ELSE IF elapsed <= 0 THEN from
    ELSE from + ((to - from) * elapsed * elapsed) \div (duration * duration)

\* clamp(elapsed / duration, 0, 1), linear easing, interpolate([0,1],[from,to])
TimingValue(from, to, duration, elapsed) ==
    IF duration = 0 \/ elapsed >= duration THEN to
    ELSE IF elapsed <= 0 THEN from
    ELSE from + ((to - from) * elapsed) \div duration

TimingDone(duration, elapsed) == elapsed >= duration

ResumeTiming(p, r, d, vals) ==
    LET from == IF r.st = "new"
                THEN (IF p.hasFrom THEN p.from ELSE vals[p.target])
                ELSE r.from
        elapsed == Elapsed(r, d)
        done == TimingDone(p.duration, elapsed)
    IN [r |-> [r EXCEPT !.st = IF done THEN "done" ELSE "run", !.el = elapsed,
                        !.from = from],
        vals |-> [vals EXCEPT ![p.target] = TimingValue(from, p.to, p.duration, elapsed)],
        wrote |-> TRUE]

ResumeWait(p, r, d, vals) ==
    LET elapsed == Elapsed(r, d)
        done == elapsed >= p.duration
    IN [r |-> [r EXCEPT !.st = IF done THEN "done" ELSE "run", !.el = elapsed],
        vals |-> vals, wrote |-> FALSE]

\* the test that forgets `invert`
WaitUntilDoneTrue(p, vals) == vals[p.target] = TRUE

\* the flag is read again at every tick
WaitUntilDone(p, vals) == vals[p.target] = ~p.invert

ResumeWaitUntil(p, r, d, vals) ==
    [r |-> [r EXCEPT !.st = IF WaitUntilDone(p, vals) THEN "done" ELSE "run"],
     vals |-> vals, wrote |-> FALSE]

RECURSIVE Resume(_, _, _, _)
RECURSIVE ResumeKids(_, _, _, _, _, _)
RECURSIVE RaceKids(_, _, _, _, _, _)
RECURSIVE RunChain(_, _, _, _, _, _, _)
RECURSIVE RunLoop(_, _, _, _, _, _, _)

\* parallel: every child that has not completed is resumed, in insertion order
ResumeKids(ps, rs, k, d, vals, wrote) ==
    IF k > Len(ps) THEN [kids |-> rs, vals |-> vals, wrote |-> wrote]
    ELSE IF rs[k].st = "done" THEN ResumeKids(ps, rs, k + 1, d, vals, wrote)
    ELSE LET res == Resume(ps[k], rs[k], d, vals)
         IN ResumeKids(ps, [rs EXCEPT ![k] = res.r], k + 1, d, res.vals,
                       wrote \/ res.wrote)

\* completion as soon as one child has completed
ParallelDoneFirst(rs) == \E k \in 1..Len(rs) : rs[k].st = "done"

ParallelDone(rs) == \A k \in 1..Len(rs) : rs[k].st = "done"

ResumeParallel(p, r, d, vals) ==
    LET rs == IF r.st = "new" THEN [k \in 1..Len(p.kids) |-> Fresh] ELSE r.kids
        res == ResumeKids(p.kids, rs, 1, d, vals, FALSE)
    IN [r |-> [r EXCEPT !.st = IF ParallelDone(res.kids) THEN "done" ELSE "run",
                        !.el = Elapsed(r, d), !.kids = res.kids],
        vals |-> res.vals, wrote |-> res.wrote]

\* what any does with child j when child k has completed
Loser(r) == Cancel(r)

\* any: children are resumed in insertion order until one completes; the
\* others are cancelled where they stand
RaceKids(ps, rs, k, d, vals, wrote) ==
    IF k > Len(ps) THEN [kids |-> rs, vals |-> vals, wrote |-> wrote, won |-> FALSE]
    ELSE LET res == Resume(ps[k], rs[k], d, vals)
         IN IF res.r.st = "done"
            THEN [kids |-> [j \in 1..Len(ps) |-> IF j = k THEN res.r ELSE Loser(rs[j])],
                  vals |-> res.vals, wrote |-> wrote \/ res.wrote, won |-> TRUE]
            ELSE RaceKids(ps, [rs EXCEPT ![k] = res.r], k + 1, d, res.vals,
                          wrote \/ res.wrote)

\* any taken for all
ResumeAnyAll(p, r, d, vals) == ResumeParallel(p, r, d, vals)

ResumeAny(p, r, d, vals) ==
    LET rs == IF r.st = "new" THEN [k \in 1..Len(p.kids) |-> Fresh] ELSE r.kids
        res == RaceKids(p.kids, rs, 1, d, vals, FALSE)
    IN [r |-> [r EXCEPT !.st = IF res.won THEN "done" ELSE "run",
                        !.el = Elapsed(r, d), !.kids = res.kids],
        vals |-> res.vals, wrote |-> res.wrote]

\* chain: child i runs to completion, then child i+1 is created and resumed
\* in the same tick; kids holds the children started so far, the last one
\* being the current one
RunChain(p, r, i, rs, d, vals, wrote) ==
    LET res == Resume(p.kids[i], rs[i], d, vals)
        w == wrote \/ res.wrote
        rs1 == [rs EXCEPT ![i] = res.r]
    IN IF res.r.st = "done"
       THEN IF i < Len(p.kids)
            THEN RunChain(p, r, i + 1, Append(rs1, Fresh), d, res.vals, w)
            ELSE [r |-> [r EXCEPT !.st = "done", !.i = i, !.kids = rs1],
                  vals |-> res.vals, wrote |-> w]
       ELSE [r |-> [r EXCEPT !.st = "run", !.i = i, !.kids = rs1],
             vals |-> res.vals, wrote |-> w]

ResumeChain(p, r, d, vals) ==
    IF Len(p.kids) = 0
    THEN [r |-> [r EXCEPT !.st = "done"], vals |-> vals, wrote |-> FALSE]
    ELSE IF r.st = "new"
    THEN RunChain(p, [r EXCEPT !.el = 0], 1, <<Fresh>>, d, vals, FALSE)
    ELSE RunChain(p, [r EXCEPT !.el = @ + d], r.i, r.kids, d, vals, FALSE)

\* the count compared off by one
LoopAgainInclusive(p, i) == ~p.bounded \/ i <= p.iterations

\* whether loop invokes its factory once more after invocation i
LoopAgain(p, i) == ~p.bounded \/ i < p.iterations

\* loop: each invocation of the factory yields a fresh child, the previous
\* one is discarded; a loop with a count keeps the number of invocations in i
RunLoop(p, r, i, kid, d, vals, wrote) ==
    LET res == Resume(p.kids[1], kid, d, vals)
        w == wrote \/ res.wrote
    IN IF res.r.st = "done"
       THEN IF LoopAgain(p, i)
            THEN RunLoop(p, r, IF p.bounded THEN i + 1 ELSE i, Fresh, d, res.vals, w)
            ELSE [r |-> [r EXCEPT !.st = "done", !.i = i, !.kids = <<res.r>>],
                  vals |-> res.vals, wrote |-> w]
       ELSE [r |-> [r EXCEPT !.st = "run", !.i = i, !.kids = <<res.r>>],
             vals |-> res.vals, wrote |-> w]

ResumeLoop(p, r, d, vals) ==
    IF p.bounded /\ p.iterations <= 0
    THEN [r |-> [r EXCEPT !.st = "done"], vals |-> vals, wrote |-> FALSE]
    ELSE IF r.st = "new"
    THEN RunLoop(p, r, 1, Fresh, d, vals, FALSE)
    ELSE RunLoop(p, r, r.i, r.kids[1], d, vals, FALSE)

\* one resumption of step p, d ms of scheduler time after the previous one
Resume(p, r, d, vals) ==
    CASE p.kind = "timing" -> ResumeTiming(p, r, d, vals)
      [] p.kind = "wait" -> ResumeWait(p, r, d, vals)
      [] p.kind = "waitUntil" -> ResumeWaitUntil(p, r, d, vals)
      [] p.kind = "parallel" -> ResumeParallel(p, r, d, vals)
      [] p.kind = "any" -> ResumeAny(p, r, d, vals)
      [] p.kind \in {"chain", "sequence"} -> ResumeChain(p, r, d, vals)
      [] p.kind = "loop" -> ResumeLoop(p, r, d, vals)

\* --------------------------------------------------------------- scheduler
NoSched == [status |-> "None", prog |-> Node("none"), root |-> Fresh,
            vals |-> [opacity |-> 0, scale |-> 0, ready |-> FALSE],
            subs |-> {}]

\* create(generatorFactory, initialState): an idle controller whose reactive
\* value group holds the initial state
Create(prog, state) ==
    [status |-> "Idle", prog |-> prog, root |-> Fresh, vals |-> state,
     subs |-> {}]

OnChange(s, cb) ==
    IF s.status = "Destroyed" THEN s ELSE [s EXCEPT !.subs = @ \cup {cb}]

\* restart() that does not look at the state
RestartAlways(s) == [s EXCEPT !.status = "Running", !.root = Fresh]

\* restart(): discards the step tree in flight, binds a new root step and
\* begins ticking; not available once destroyed
Restart(s) ==
    IF s.status = "Destroyed" THEN s
    ELSE [s EXCEPT !.status = "Running", !.root = Fresh]

\* destroy(): stops ticking, cancels the root step, releases subscriptions
Destroy(s) ==
    IF s.status = "Destroyed" THEN s
    ELSE [s EXCEPT !.status = "Destroyed", !.root = Cancel(@), !.subs = {}]

Pause(s) == IF s.status = "Running" THEN [s EXCEPT !.status = "Paused"] ELSE s

Unpause(s) == IF s.status = "Paused" THEN [s EXCEPT !.status = "Running"] ELSE s

\* one scheduling tick d ms after the previous one: the root step is resumed
\* once; the scheduler leaves Running when the root step has completed
Frame(s, d) ==
    LET res == Resume(s.prog, s.root, d, s.vals)
    IN [s EXCEPT !.root = res.r, !.vals = res.vals,
                 !.status = IF res.r.st = "done" THEN "Idle" ELSE "Running"]

\* whether that tick emits the (coalesced) change notification
FrameWrote(s, d) == Resume(s.prog, s.root, d, s.vals).wrote

\* ------------------------------------------------------------------- state
VARIABLES
    animation,   \* the animation program passed to the hook
    mounted,     \* life cycle of the hook instance
    getRef,      \* getRef.current: 0 (null) or the scheduler created last
    memoDeps,    \* dependency list of the memoized scheduler
    renderReq,   \* setRender({}) was called and the re-render is pending
    sched,       \* every scheduler the hook instance has created
    notifyLog,   \* schedulers whose change subscribers ran in the last step
    historyCache, \* useData: the module's Map from context key to HistoryData
    dataHook,     \* useData: the hook instances (life cycle, data.current, listener)
    dataEvents,   \* useData: the callbacks registered with onChange, and how often
                  \* each of them ran in the step just taken
    cache,        \* useCache: the module's Map from key to value
    cacheHook,    \* useCache: the hook instances (life cycle, state, closure)
    promiseHook,  \* usePromise: the hook instance (life cycle, state, deps, loading)
    promises,     \* usePromise: every PromiseResult the effect has created
    debounceHook, \* useDebouncedCallback: life cycle, delay, debounceTimerRef
    timers,       \* useDebouncedCallback: the pending timers of the window
    timerCount,   \* useDebouncedCallback: timers created (the last timer id)
    burst,        \* useDebouncedCallback: the last call of the debounced
                  \* function, the time since, the invocations since
    effectHook, \* useDebouncedEffect: life cycle, deps, delay, timeout, destructor.current
    effectTimers, \* useDebouncedEffect: the pending timers
    effectCount, \* useDebouncedEffect: timers created (the last timer id)
    settle, \* useDebouncedEffect: the time since the dependencies changed last
                 \* and the dependencies effect was called for since
    localStorage, \* useLocalStorage: window.localStorage, key to item
    storageMode, \* useLocalStorage: whether localStorage works, is full or is denied
    storageCache, \* useLocalStorage: the module's Map from key to JSON text
    storageHook, \* useLocalStorage: the hook instances (life cycle, state, closure)
    written, \* useLocalStorage: per key, the value of the last setValue call
    emitterHook, \* useEventEmitter: life cycle, deps, listener registered, destructor.current
    emitterRuns, \* useEventEmitter: the executions of the callback: whether each
                 \* returned a destructor and whether that destructor was called
    subscribeHook, \* useSubscribeEvent: life cycle, event, isOnce, handler of the effect
    registry, \* useSubscribeEvent: the listeners registered on the scope
    handlerCount, \* useSubscribeEvent: handlers created (the last handler id)
    subCalls, \* useSubscribeEvent: number of calls of the callback
    observerHook, \* useRefObserver: life cycle, deps, ref.current, destructor.current
    observerRuns, \* useRefObserver: the runs of effect: the value passed, whether a
                 \* cleanup was returned, how often that cleanup was called
    listenerHook, \* useEventListener: life cycle, the props event and element, elementRef.current,
                 \* the target and event name captured by the last effect
    listeners, \* useEventListener: the pairs <<target, event name>> the handler is attached to
    countdownHook, \* useCountdown: life cycle, targetDate, options.startDate and
                 \* options.interval, timeNow, the remaining time of the timeout,
                 \* the number of renders caused by the parent
    clock, \* useCountdown: Date.now(), in seconds
    updates, \* useCountdown: the number of calls of setTimeNow
    sharedHooks, \* useSharedValue and useSharedValues: life cycle of the component and
                 \* the number of calls of setRender
    sharedValue, \* the SharedValue of useSharedValue: its value and the change
                 \* notifications it fired
    sharedValues, \* the SharedValues of useSharedValues: its fields and the change
                 \* notifications the group fired
    sharedWrites, \* the number of assignments made to the value and to the group
    callbackHook, \* useCallbackRef: life cycle, the callback of the last render,
                 \* callbackRef.current, the identity of the returned function,
                 \* whether the last render has committed
    callbackCalls, \* useCallbackRef: the calls of the returned function: argument and result
    marginCall, \* dom().margin(value, {to}): the definitions passed and the
                 \* margins the animation starts from and ends at
    browser, \* history: the browser history stack (position and length) and the
                 \* number of navigations made
    historyIndex, \* history: the module variable currentIndex
    historyListeners, \* history: the module array listeners, and the listeners that
                 \* hold an unsubscribe function
    dispatched \* history: the last dispatch: the listeners at its start, the ones
                 \* removed during it, how often each was called

animVars == <<animation, mounted, getRef, memoDeps, renderReq, sched, notifyLog>>

dataVars == <<historyCache, dataHook, dataEvents>>

cacheVars == <<cache, cacheHook>>

promiseVars == <<promiseHook, promises>>

debounceVars == <<debounceHook, timers, timerCount, burst>>

effectVars == <<effectHook, effectTimers, effectCount, settle>>

storageVars == <<localStorage, storageMode, storageCache, storageHook, written>>

emitterVars == <<emitterHook, emitterRuns>>

subscribeVars == <<subscribeHook, registry, handlerCount, subCalls>>

observerVars == <<observerHook, observerRuns>>

listenerVars == <<listenerHook, listeners>>

countdownVars == <<countdownHook, clock, updates>>

sharedVars == <<sharedHooks, sharedValue, sharedValues, sharedWrites>>

callbackVars == <<callbackHook, callbackCalls>>

marginVars == <<marginCall>>

historyVars == <<browser, historyIndex, historyListeners, dispatched>>

vars ==
    <<animVars, dataVars, cacheVars, promiseVars,
      debounceVars, effectVars, storageVars, emitterVars,
      subscribeVars, observerVars, listenerVars, countdownVars,
      sharedVars, callbackVars, marginVars, historyVars>>

\* what the actions of one hook leave alone: the state of the other hooks
exceptAnimation ==
    <<dataVars, cacheVars, promiseVars, debounceVars,
      effectVars, storageVars, emitterVars, subscribeVars,
      observerVars, listenerVars, countdownVars, sharedVars,
      callbackVars, marginVars, historyVars>>

exceptData ==
    <<animVars, cacheVars, promiseVars, debounceVars,
      effectVars, storageVars, emitterVars, subscribeVars,
      observerVars, listenerVars, countdownVars, sharedVars,
      callbackVars, marginVars, historyVars>>

exceptCache ==
    <<animVars, dataVars, promiseVars, debounceVars,
      effectVars, storageVars, emitterVars, subscribeVars,
      observerVars, listenerVars, countdownVars, sharedVars,
      callbackVars, marginVars, historyVars>>

exceptPromise ==
    <<animVars, dataVars, cacheVars, debounceVars,
      effectVars, storageVars, emitterVars, subscribeVars,
      observerVars, listenerVars, countdownVars, sharedVars,
      callbackVars, marginVars, historyVars>>

exceptDebounce ==
    <<animVars, dataVars, cacheVars, promiseVars,
      effectVars, storageVars, emitterVars, subscribeVars,
      observerVars, listenerVars, countdownVars, sharedVars,
      callbackVars, marginVars, historyVars>>

exceptEffect ==
    <<animVars, dataVars, cacheVars, promiseVars,
      debounceVars, storageVars, emitterVars, subscribeVars,
      observerVars, listenerVars, countdownVars, sharedVars,
      callbackVars, marginVars, historyVars>>

exceptStorage ==
    <<animVars, dataVars, cacheVars, promiseVars,
      debounceVars, effectVars, emitterVars, subscribeVars,
      observerVars, listenerVars, countdownVars, sharedVars,
      callbackVars, marginVars, historyVars>>

exceptEmitter ==
    <<animVars, dataVars, cacheVars, promiseVars,
      debounceVars, effectVars, storageVars, subscribeVars,
      observerVars, listenerVars, countdownVars, sharedVars,
      callbackVars, marginVars, historyVars>>

exceptSubscribe ==
    <<animVars, dataVars, cacheVars, promiseVars,
      debounceVars, effectVars, storageVars, emitterVars,
      observerVars, listenerVars, countdownVars, sharedVars,
      callbackVars, marginVars, historyVars>>

exceptObserver ==
    <<animVars, dataVars, cacheVars, promiseVars,
      debounceVars, effectVars, storageVars, emitterVars,
      subscribeVars, listenerVars, countdownVars, sharedVars,
      callbackVars, marginVars, historyVars>>

exceptListener ==
    <<animVars, dataVars, cacheVars, promiseVars,
      debounceVars, effectVars, storageVars, emitterVars,
      subscribeVars, observerVars, countdownVars, sharedVars,
      callbackVars, marginVars, historyVars>>

exceptCountdown ==
    <<animVars, dataVars, cacheVars, promiseVars,
      debounceVars, effectVars, storageVars, emitterVars,
      subscribeVars, observerVars, listenerVars, sharedVars,
      callbackVars, marginVars, historyVars>>

exceptShared ==
    <<animVars, dataVars, cacheVars, promiseVars,
      debounceVars, effectVars, storageVars, emitterVars,
      subscribeVars, observerVars, listenerVars, countdownVars,
      callbackVars, marginVars, historyVars>>

exceptCallback ==
    <<animVars, dataVars, cacheVars, promiseVars,
      debounceVars, effectVars, storageVars, emitterVars,
      subscribeVars, observerVars, listenerVars, countdownVars,
      sharedVars, marginVars, historyVars>>

exceptMargin ==
    <<animVars, dataVars, cacheVars, promiseVars,
      debounceVars, effectVars, storageVars, emitterVars,
      subscribeVars, observerVars, listenerVars, countdownVars,
      sharedVars, callbackVars, historyVars>>

exceptHistory ==
    <<animVars, dataVars, cacheVars, promiseVars,
      debounceVars, effectVars, storageVars, emitterVars,
      subscribeVars, observerVars, listenerVars, countdownVars,
      sharedVars, callbackVars, marginVars>>

SchedIds == 1..MaxSched

Created(id) == sched[id].status # "None"

Live(id) == sched[id].status \in {"Idle", "Running", "Paused"}

NumCreated == Cardinality({id \in SchedIds : Created(id)})

\* the state object of the test and of the examples
InitialState == [opacity |-> 0, scale |-> 0, ready |-> FALSE]

\* useData: the arguments (initialData.value, context) of the hook instances:
\* two components share the context k1, a third one uses k2
DataProps ==
    << [context |-> "k1", initialData |-> 0],
       [context |-> "k1", initialData |-> 1],
       [context |-> "k2", initialData |-> 0] >>

DataHooks == 1..Len(DataProps)

\* useData: the instances whose component registers a callback with onChange
DataObservers == {h \in DataHooks : DataProps[h].initialData = 1}

\* cache.get(contextId) of a key the Map does not hold
NoHistory ==
    [historical |-> <<>>, currentContext |-> 0, currentIndex |-> 0,
     initialData |-> 0]

\* no component using useData has rendered yet
DataInit ==
    /\ historyCache = [k \in DataKeys |-> NoHistory]
    /\ dataHook = [h \in DataHooks |->
                      [st |-> Unmounted, current |-> DataProps[h].initialData,
                       sub |-> FALSE]]
    /\ dataEvents = [onChange |-> [h \in DataHooks |-> FALSE],
                     callback |-> [h \in DataHooks |-> 0]]

\* useCache: the arguments (key, initialValue) of the hook instances: two
\* components share the key k1, a third one uses k2
CacheProps ==
    << [key |-> "k1", initialValue |-> 0],
       [key |-> "k1", initialValue |-> 2],
       [key |-> "k2", initialValue |-> 1] >>

CacheHooks == 1..Len(CacheProps)

\* the Map is empty and no component using useCache has rendered yet
CacheInit ==
    /\ cache = [k \in {} |-> 0]
    /\ cacheHook = [h \in CacheHooks |->
                       [st |-> Unmounted,
                        storedValue |-> CacheProps[h].initialValue,
                        closure |-> CacheProps[h].initialValue,
                        returned |-> CacheProps[h].initialValue]]

\* usePromise: the initial state of useState and of a PromiseResult
Pending == <<Undefined, "pending", Undefined>>

\* the component using usePromise has not rendered yet
PromiseInit ==
    /\ promiseHook = [st |-> Unmounted, state |-> Pending, deps |-> "d1",
                      loading |-> FALSE]
    /\ promises = <<>>

\* useDebouncedCallback: the debounced function has not been called
NoBurst == [calls |-> 0, args |-> "none", delay |-> 0, age |-> 0, invoked |-> <<>>]

\* the component using useDebouncedCallback has not rendered yet
DebounceInit ==
    /\ debounceHook = [st |-> Unmounted, delay |-> 0, debounceTimerRef |-> 0]
    /\ timers = {}
    /\ timerCount = 0
    /\ burst = NoBurst

\* the component using useDebouncedEffect has not rendered yet
EffectInit ==
    /\ effectHook = [st |-> Unmounted, deps |-> "d1", delay |-> 0,
                     timeout |-> 0, destructor |-> "null"]
    /\ effectTimers = {}
    /\ effectCount = 0
    /\ settle = [age |-> 0, runs |-> <<>>]

\* useLocalStorage: the arguments (key, initialValue) of the hook instances:
\* two components share the key k1, a third one uses k2
StorageProps ==
    << [key |-> "k1", initialValue |-> 0],
       [key |-> "k1", initialValue |-> 2],
       [key |-> "k2", initialValue |-> 1] >>

StorageHooks == 1..Len(StorageProps)

StorageKeys == {StorageProps[h].key : h \in StorageHooks}

\* localStorage and the Map are empty, localStorage works, no component
\* using useLocalStorage has rendered yet
StorageInit ==
    /\ localStorage = [k \in StorageKeys |-> NoItem]
    /\ storageMode = "ok"
    /\ storageCache = [k \in StorageKeys |-> NoItem]
    /\ storageHook = [h \in StorageHooks |->
                         [st |-> Unmounted,
                          storedValue |-> StorageProps[h].initialValue,
                          closure |-> StorageProps[h].initialValue]]
    /\ written = [k \in StorageKeys |-> [set |-> FALSE, value |-> 0]]

\* the component using useEventEmitter has not rendered yet
EmitterInit ==
    /\ emitterHook = [st |-> Unmounted, deps |-> "d1", on |-> FALSE,
                      destructor |-> 0]
    /\ emitterRuns = <<>>

\* the scope has no listener and the component using useSubscribeEvent
\* has not rendered yet
SubscribeInit ==
    /\ subscribeHook = [st |-> Unmounted, event |-> "e1", isOnce |-> FALSE,
                        handler |-> 0]
    /\ registry = {}
    /\ handlerCount = 0
    /\ subCalls = 0

\* the component using useRefObserver has not rendered yet
ObserverInit ==
    /\ observerHook = [st |-> Unmounted, deps |-> "d1", current |-> "initial",
                       destructor |-> 0]
    /\ observerRuns = <<>>

\* the component using useEventListener has not rendered yet
ListenerInit ==
    /\ listenerHook = [st |-> Unmounted, event |-> "e1", element |-> NoElement,
                       current |-> Null, targetElement |-> Null,
                       effectEvent |-> "e1"]
    /\ listeners = {}

\* the component using useCountdown has not rendered yet
CountdownInit ==
    /\ countdownHook = [st |-> Unmounted, target |-> 0, startDate |-> Now,
                        interval |-> Dynamic, timeNow |-> 0,
                        timer |-> NoTimer, renders |-> 0]
    /\ clock = 0
    /\ updates = 0

\* new SharedValue(initialValue)
NewSharedValue(initialValue) == [value |-> initialValue, changes |-> 0]

\* the components using useSharedValue(0) and useSharedValues({x: 0,
\* opacity: 0}) have not rendered yet
SharedInit ==
    /\ sharedHooks = [h \in SharedHooks |-> [st |-> Unmounted, renders |-> 0]]
    /\ sharedValue = NewSharedValue(0)
    /\ sharedValues = [current |-> [k \in SharedKeys |-> NewSharedValue(0)],
                       changes |-> 0]
    /\ sharedWrites = [h \in SharedHooks |-> 0]

\* the component using useCallbackRef has not rendered yet
CallbackInit ==
    /\ callbackHook = [st |-> Unmounted, callback |-> Undefined,
                       current |-> Undefined, fn |-> 0, committed |-> FALSE]
    /\ callbackCalls = <<>>

\* dom().margin has not been called
MarginInit ==
    marginCall = [called |-> FALSE, value |-> <<0>>, to |-> <<0>>,
                  fromValue |-> [top |-> 0, right |-> 0, bottom |-> 0, left |-> 0],
                  toValue |-> [top |-> 0, right |-> 0, bottom |-> 0, left |-> 0]]

\* the module is loaded: createMemoryHistory() has run, nobody listens
HistoryInit ==
    /\ browser = [position |-> 1, length |-> 1, navigations |-> 0]
    /\ historyIndex = 0
    /\ historyListeners = [listeners |-> <<>>, handles |-> {}]
    /\ dispatched = [before |-> <<>>, removed |-> {},
                     called |-> [l \in HistoryListenerIds |-> 0]]

\* the hooks besides useAnimation before their components render
HooksInit ==
    /\ DataInit
    /\ CacheInit
    /\ PromiseInit
    /\ DebounceInit
    /\ EffectInit
    /\ StorageInit
    /\ EmitterInit
    /\ SubscribeInit
    /\ ObserverInit
    /\ ListenerInit
    /\ CountdownInit
    /\ SharedInit
    /\ CallbackInit
    /\ MarginInit
    /\ HistoryInit

\* ------------------------------------------------------------ the programs
\* function* (state) { yield* this.timing(state.opacity, {to: 1, duration: 1000}) }
TestProgram == Timing("opacity", 1000, 1000)

LinearProgram == TimingFrom("opacity", 0, 1000, 1000)

ParallelProgram ==
    Parallel(<<TimingFrom("opacity", 0, 1000, 100), TimingFrom("scale", 0, 1000, 300)>>)

AnyProgram ==
    Chain(<<AnyOf(<<TimingFrom("opacity", 0, 1000, 100),
                    TimingFrom("scale", 0, 1000, 300)>>),
            Wait(200)>>)

SequenceProgram ==
    Sequence(100, <<TimingFrom("opacity", 0, 1000, 200),
                    TimingFrom("scale", 0, 1000, 200)>>)

LoopProgram == Loop(3, TimingFrom("opacity", 0, 1000, 100))

LoopForeverProgram == LoopForever(TimingFrom("opacity", 0, 1000, 100))

WaitUntilProgram == WaitUntil("ready", FALSE)

WaitWhileProgram == WaitUntil("ready", TRUE)

\* the programs the combinators are studied on
Programs ==
    {LinearProgram, ParallelProgram, AnyProgram, SequenceProgram,
     LoopProgram, LoopForeverProgram, WaitUntilProgram, WaitWhileProgram}

\* the programs the life cycle of the hook is studied on: one that completes,
\* one that never does, one that waits for the component
HookPrograms == {LoopProgram, LoopForeverProgram, WaitUntilProgram}

\* ---------------------------------------------------------------- the hook
\* the factory without the destroy() of the previous scheduler
GenFactoryLeak(sc, ref) ==
    LET id == Cardinality({j \in SchedIds : sc[j].status # "None"}) + 1
        s2 == [sc EXCEPT ![id] = Create(animation, InitialState)]
        s3 == [s2 EXCEPT ![id] = OnChange(@, "setRender")]
        s4 == [s3 EXCEPT ![id] = Restart(@)]
    IN [sched |-> s4, ref |-> id]

\* the factory without the restart() of the new scheduler
GenFactoryIdle(sc, ref) ==
    LET s1 == IF ref # 0 THEN [sc EXCEPT ![ref] = Destroy(@)] ELSE sc
        id == Cardinality({j \in SchedIds : sc[j].status # "None"}) + 1
        s2 == [s1 EXCEPT ![id] = Create(animation, InitialState)]
        s3 == [s2 EXCEPT ![id] = OnChange(@, "setRender")]
    IN [sched |-> s3, ref |-> id]

\* the factory given to useMemo
GenFactory(sc, ref) ==
    LET s1 == IF ref # 0 THEN [sc EXCEPT ![ref] = Destroy(@)] ELSE sc
        id == Cardinality({j \in SchedIds : sc[j].status # "None"}) + 1
        s2 == [s1 EXCEPT ![id] = Create(animation, InitialState)]
        s3 == [s2 EXCEPT ![id] = OnChange(@, "setRender")]
        s4 == [s3 EXCEPT ![id] = Restart(@)]
    IN [sched |-> s4, ref |-> id]

InitWith(progs) ==
    /\ animation \in progs
    /\ mounted = Unmounted
    /\ getRef = 0
    /\ memoDeps = "d1"
    /\ renderReq = FALSE
    /\ sched = [id \in SchedIds |-> NoSched]
    /\ notifyLog = {}
    /\ HooksInit

\* first render
Mount ==
    /\ mounted = Unmounted
    /\ LET g == GenFactory(sched, getRef)
       IN /\ sched' = g.sched
          /\ getRef' = g.ref
    /\ mounted' = Mounted
    /\ renderReq' = FALSE
    /\ notifyLog' = {}
    /\ UNCHANGED <<animation, memoDeps>>
    /\ UNCHANGED exceptAnimation

\* a later render with the same dependency list: useMemo keeps the scheduler
Render ==
    /\ mounted = Mounted
    /\ renderReq' = FALSE
    /\ notifyLog' = {}
    /\ UNCHANGED <<animation, mounted, getRef, memoDeps, sched>>
    /\ UNCHANGED exceptAnimation

\* a later render with a changed dependency list: the factory runs again
RenderDepsChange(d) ==
    /\ mounted = Mounted
    /\ d # memoDeps
    /\ NumCreated < MaxSched
    /\ LET g == GenFactory(sched, getRef)
       IN /\ sched' = g.sched
          /\ getRef' = g.ref
    /\ memoDeps' = d
    /\ renderReq' = FALSE
    /\ notifyLog' = {}
    /\ UNCHANGED <<animation, mounted>>
    /\ UNCHANGED exceptAnimation

\* the hook registers no effect, so unmounting runs no cleanup
Unmount ==
    /\ mounted = Mounted
    /\ mounted' = Gone
    /\ renderReq' = FALSE
    /\ notifyLog' = {}
    /\ UNCHANGED <<animation, getRef, memoDeps, sched>>
    /\ UNCHANGED exceptAnimation

Ticking(id) == sched[id].status = "Running"

\* an animation frame: every running scheduler ticks
Tick(d) ==
    /\ \E id \in SchedIds : Ticking(id)
    /\ sched' = [id \in SchedIds |->
                    IF Ticking(id) THEN Frame(sched[id], d) ELSE sched[id]]
    /\ notifyLog' = {id \in SchedIds :
                        Ticking(id) /\ FrameWrote(sched[id], d)
                        /\ sched[id].subs # {}}
    /\ renderReq' = (renderReq \/ (mounted = Mounted /\ notifyLog' # {}))
    /\ UNCHANGED <<animation, mounted, getRef, memoDeps>>
    /\ UNCHANGED exceptAnimation

\* the component calls a method of the controller the hook returned
UserOp(op) ==
    /\ getRef # 0
    /\ sched' = [sched EXCEPT ![getRef] =
                    CASE op = "pause" -> Pause(@)
                      [] op = "resume" -> Unpause(@)
                      [] op = "restart" -> Restart(@)
                      [] op = "destroy" -> Destroy(@)]
    /\ notifyLog' = {}
    /\ UNCHANGED <<animation, mounted, getRef, memoDeps, renderReq>>
    /\ UNCHANGED exceptAnimation

UserOps == {"pause", "resume", "restart", "destroy"}

\* state.ready.value = b, assigned from outside the animation
SetFlag(b) ==
    /\ getRef # 0
    /\ sched' = [sched EXCEPT ![getRef].vals.ready = b]
    /\ notifyLog' = IF sched[getRef].subs # {} THEN {getRef} ELSE {}
    /\ renderReq' = (renderReq \/ (mounted = Mounted /\ notifyLog' # {}))
    /\ UNCHANGED <<animation, mounted, getRef, memoDeps>>
    /\ UNCHANGED exceptAnimation

Init == InitWith(HookPrograms)

Next ==
    \/ Mount
    \/ Render
    \/ \E d \in DepValues : RenderDepsChange(d)
    \/ Unmount
    \/ \E d \in FrameDeltas : Tick(d)
    \/ \E op \in UserOps : UserOp(op)
    \/ \E b \in BOOLEAN : SetFlag(b)

\* the hook through mount, re-renders, dependency changes and unmount
Spec == Init /\ [][Next]_vars

InitEngine == InitWith(Programs)

NextEngine ==
    \/ Mount
    \/ Render
    \/ \E d \in FrameDeltas : Tick(d)
    \/ \E op \in UserOps : UserOp(op)
    \/ \E b \in BOOLEAN : SetFlag(b)

\* one mounted hook with a fixed dependency list, over every program
EngineSpec == InitEngine /\ [][NextEngine]_vars

InitLive == InitWith({TestProgram})

NextLive ==
    \/ Mount
    \/ Render
    \/ \E d \in FineDeltas : Tick(d)

\* the test of the hook: the component is rendered and left alone; React
\* performs the first render and the frame callback of a running scheduler
\* keeps being called
LiveSpec ==
    /\ InitLive
    /\ [][NextLive]_vars
    /\ WF_vars(Mount)
    /\ WF_vars(\E d \in FineDeltas : Tick(d))

TypeOK ==
    /\ mounted \in {Unmounted, Mounted, Gone}
    /\ getRef \in 0..MaxSched
    /\ \A id \in SchedIds :
         sched[id].status \in {"None", "Idle", "Running", "Paused", "Destroyed"}


\* ==================================================================== useData
\* src/src/hooks/useData/index.ts.  The shared object is {value: n}; the
\* model keeps n.  currentIndex counts from 0 as in the source, sequences
\* count from 1.

\* JSON.stringify of {value: n}, up to the text around the numeral
Stringify(n) == ToString(n)

Has(k) == historyCache[k].historical # <<>>

\* new HistoryData(initialData)
NewHistoryData(initialData) ==
    [historical |-> <<initialData>>, currentContext |-> initialData,
     currentIndex |-> 0, initialData |-> initialData]

\* HistoryData.push
Push(hd, data) ==
    IF Stringify(hd.historical[hd.currentIndex + 1]) = Stringify(data)
    THEN hd
    ELSE [hd EXCEPT !.historical =
                        Append(SubSeq(@, 1, hd.currentIndex + 1), data),
                    !.currentContext = data,
                    !.currentIndex = @ + 1]

\* the object behind currentContext gets value = n: the assignment is made
\* in place, then the observer created by createContext pushes the object
Observed(hd, n) == Push([hd EXCEPT !.currentContext = n], n)

\* an undo that does not look at currentIndex
UndoUnguarded(hd) ==
    [hd EXCEPT !.currentIndex = @ - 1,
               !.currentContext = hd.historical[IF hd.currentIndex > 0
                                                THEN hd.currentIndex ELSE 1]]

\* HistoryData.undo
Undo(hd) ==
    IF hd.currentIndex > 0
    THEN [hd EXCEPT !.currentIndex = @ - 1,
                    !.currentContext = hd.historical[hd.currentIndex]]
    ELSE hd

\* HistoryData.redo
Redo(hd) ==
    IF hd.currentIndex < Len(hd.historical) - 1
    THEN [hd EXCEPT !.currentIndex = @ + 1,
                    !.currentContext = hd.historical[hd.currentIndex + 2]]
    ELSE hd

CanUndo(hd) == hd.currentIndex > 0

CanRedo(hd) == hd.currentIndex < Len(hd.historical) - 1

\* HistoryData.clear(): currentContext is left as it is
Clear(hd) ==
    [hd EXCEPT !.historical = <<hd.initialData>>, !.currentIndex = 0]

ContextId(h) == DataProps[h].context

\* the getters of the object the hook returns, reading data.current
HookDataRef(h) == dataHook[h].current

\* the getters of the object the hook returns
HookData(h) ==
    IF Has(ContextId(h)) THEN historyCache[ContextId(h)].currentContext
    ELSE dataHook[h].current

HookCanUndo(h) == Has(ContextId(h)) /\ CanUndo(historyCache[ContextId(h)])

HookCanRedo(h) == Has(ContextId(h)) /\ CanRedo(historyCache[ContextId(h)])

\* events.emit(contextId) over the cache hc: every listening instance of the
\* key re-reads data.current
Emit(hc, k, hooks) ==
    [h \in DataHooks |->
        IF hooks[h].sub /\ ContextId(h) = k /\ hc[k].historical # <<>>
        THEN [hooks[h] EXCEPT !.current = hc[k].currentContext]
        ELSE hooks[h]]

\* events.emit(contextId) for the callbacks: every callback registered with
\* onChange for the key runs once (Emit is the part of the instances)
Notified(k, ev) ==
    [ev EXCEPT
        !.callback = [h \in DataHooks |->
                         IF ev.onChange[h] /\ ContextId(h) = k THEN 1 ELSE 0]]

\* a step without events.emit: no callback runs
NotNotified(ev) == [ev EXCEPT !.callback = [h \in DataHooks |-> 0]]

\* first render and the mount effect
DataMount(h) ==
    LET k == ContextId(h)
        current == IF Has(k) THEN historyCache[k].currentContext
                   ELSE DataProps[h].initialData
    IN /\ dataHook[h].st = Unmounted
       /\ historyCache' = IF Has(k) THEN historyCache
                          ELSE [historyCache EXCEPT
                                   ![k] = NewHistoryData(current)]
       /\ dataHook' = [dataHook EXCEPT
                          ![h] = [st |-> Mounted, current |-> current,
                                  sub |-> TRUE]]
       /\ dataEvents' = NotNotified(dataEvents)
       /\ UNCHANGED exceptData

\* the component assigns data.value = n, a value the field does not hold
DataMutate(h, n) ==
    LET k == ContextId(h)
    IN /\ dataHook[h].st = Mounted
       /\ n # historyCache[k].currentContext
       /\ \/ Stringify(historyCache[k].historical[historyCache[k].currentIndex + 1])
                = Stringify(n)
          \/ historyCache[k].currentIndex + 1 < MaxHistory
       /\ historyCache' = [historyCache EXCEPT ![k] = Observed(@, n)]
       /\ dataEvents' = NotNotified(dataEvents)
       /\ UNCHANGED dataHook
       /\ UNCHANGED exceptData

\* one of the callbacks undo, redo, clear of the hook
DataCall(h, method) ==
    LET k == ContextId(h)
        hc == [historyCache EXCEPT
                  ![k] = CASE method = "undo" -> Undo(@)
                           [] method = "redo" -> Redo(@)
                           [] method = "clear" -> Clear(@)]
    IN /\ dataHook[h].st = Mounted
       /\ historyCache' = hc
       /\ dataHook' = Emit(hc, k, [dataHook EXCEPT
                                      ![h].current = hc[k].currentContext])
       /\ dataEvents' = Notified(k, dataEvents)
       /\ UNCHANGED exceptData

DataMethods == {"undo", "redo", "clear"}

\* onChange(callback): the callback listens to the events of the key; the
\* hook never removes it
DataOnChange(h) ==
    /\ dataHook[h].st = Mounted
    /\ ~dataEvents.onChange[h]
    /\ dataEvents' = [NotNotified(dataEvents) EXCEPT !.onChange[h] = TRUE]
    /\ UNCHANGED <<historyCache, dataHook>>
    /\ UNCHANGED exceptData

\* the cleanup of the mount effect
DataUnmount(h) ==
    /\ dataHook[h].st = Mounted
    /\ dataHook' = [dataHook EXCEPT ![h].st = Gone, ![h].sub = FALSE]
    /\ dataEvents' = NotNotified(dataEvents)
    /\ UNCHANGED historyCache
    /\ UNCHANGED exceptData

InitData == InitWith({TestProgram})

NextData ==
    \/ \E h \in DataHooks : DataMount(h)
    \/ \E h \in DataHooks : \E n \in DataValues : DataMutate(h, n)
    \/ \E h \in DataHooks : \E method \in DataMethods : DataCall(h, method)
    \/ \E h \in DataHooks : DataUnmount(h)

\* components using useData mount, mutate, undo, redo, clear and unmount
DataSpec == InitData /\ [][NextData]_vars

NextDataEvents ==
    \/ NextData
    \/ \E h \in DataObservers : DataOnChange(h)

\* the same, where the components also register callbacks with onChange
DataEventsSpec == InitData /\ [][NextDataEvents]_vars


\* =================================================================== useCache
\* src/src/hooks/useCache/index.ts.  Of a hook instance: storedValue is the
\* React state, returned the first element of the tuple of its last render,
\* closure the storedValue seen by the memoized setValue, whose dependency
\* list [id, key] never changes after the first render.

CacheKey(h) == CacheProps[h].key

\* the truth value JavaScript gives a number in `item ? item : initialValue`
Truthy(item) == item # 0

\* the initializer of useState
InitialStored(h) ==
    IF CacheKey(h) \in DOMAIN cache /\ Truthy(cache[CacheKey(h)])
    THEN cache[CacheKey(h)]
    ELSE CacheProps[h].initialValue

\* cache.set(key, value)
CacheSet(c, k, value) ==
    [j \in DOMAIN c \cup {k} |-> IF j = k THEN value ELSE c[j]]

\* the listener of the mount effect, called with (_id, key, value): its
\* parameter key hides the key of the hook, so `key === key` holds
Listens(g, sender, key) == key = key /\ sender # g

\* setValue called by instance h with the value or the result of the updater
SetValue(h, valueToStore) ==
    /\ cacheHook[h].st = Mounted
    /\ cache' = CacheSet(cache, CacheKey(h), valueToStore)
    /\ cacheHook' =
           [g \in CacheHooks |->
               IF g = h
               THEN [cacheHook[g] EXCEPT !.storedValue = valueToStore]
               ELSE IF cacheHook[g].st = Mounted /\ Listens(g, h, CacheKey(h))
                    THEN [cacheHook[g] EXCEPT
                             !.storedValue = cacheHook[h].closure]
                    ELSE cacheHook[g]]
    /\ UNCHANGED exceptCache

\* first render and the mount effect
CacheMount(h) ==
    /\ cacheHook[h].st = Unmounted
    /\ cacheHook' = [cacheHook EXCEPT
                        ![h] = [st |-> Mounted,
                                storedValue |-> InitialStored(h),
                                closure |-> InitialStored(h),
                                returned |-> InitialStored(h)]]
    /\ UNCHANGED cache
    /\ UNCHANGED exceptCache

\* a later render: the tuple holds the state, setValue is the memoized one
CacheRender(h) ==
    /\ cacheHook[h].st = Mounted
    /\ cacheHook[h].returned # cacheHook[h].storedValue
    /\ cacheHook' = [cacheHook EXCEPT ![h].returned = cacheHook[h].storedValue]
    /\ UNCHANGED cache
    /\ UNCHANGED exceptCache

\* setValue(value)
CacheSetValue(h, value) == SetValue(h, value)

\* setValue(c => c + 1)
CacheIncrement(h) == SetValue(h, cacheHook[h].closure + 1)

\* the cleanup of the mount effect
CacheUnmount(h) ==
    /\ cacheHook[h].st = Mounted
    /\ cacheHook' = [cacheHook EXCEPT ![h].st = Gone]
    /\ UNCHANGED cache
    /\ UNCHANGED exceptCache

InitCache == InitWith({TestProgram})

NextCache ==
    \/ \E h \in CacheHooks : CacheMount(h)
    \/ \E h \in CacheHooks : CacheRender(h)
    \/ \E h \in CacheHooks : \E value \in CacheValues : CacheSetValue(h, value)
    \/ \E h \in CacheHooks : CacheIncrement(h)
    \/ \E h \in CacheHooks : CacheUnmount(h)

\* components using useCache mount, render, set values and unmount
CacheSpec == InitCache /\ [][NextCache]_vars


\* ================================================================= usePromise
\* src/jest.config.js, lines 17 - 141.  A PromiseResult is kept with the
\* dependency value its callback() was called under (the promise resolves
\* with a value computed from it) and with `on`, whether the listener the
\* hook registered on it is still registered.

\* new PromiseResult(promise): the first emit finds no listener
NewPromiseResult(deps) ==
    [deps |-> deps, result |-> Undefined, state |-> "pending",
     error |-> Undefined, on |-> FALSE]

\* the handler given to then
Then(pr, i) ==
    IF i = "Error"
    THEN [pr EXCEPT !.state = "rejected", !.error = i]
    ELSE [pr EXCEPT !.state = "fulfilled", !.result = i]

\* the handler given to catch
Catch(pr, e) == [pr EXCEPT !.state = "rejected", !.error = e]

\* the PromiseResult once its promise has settled
Settled(pr, outcome) ==
    CASE outcome = "value" -> Then(pr, pr.deps)
      [] outcome = "errorValue" -> Then(pr, "Error")
      [] outcome = "reject" -> Catch(pr, "reason")

\* the arguments of emit("change", ...)
Change(pr) == <<pr.result, pr.state, pr.error>>

\* a cleanup that leaves the listener registered
StopNothing(prs) == prs

\* the cleanup of the effect: event.stop()
Stop(prs) == [e \in 1..Len(prs) |-> [prs[e] EXCEPT !.on = FALSE]]

\* the effect without `if (loading) return`
EffectAlways(prs, deps, loading) ==
    Append(prs, [NewPromiseResult(deps) EXCEPT !.on = TRUE])

\* the effect after setState: the PromiseResult it creates and listens to
Effect(prs, deps, loading) ==
    IF loading THEN prs
    ELSE Append(prs, [NewPromiseResult(deps) EXCEPT !.on = TRUE])

\* first render with the given dependency and loading, and the effect
PromiseMount(deps, loading) ==
    /\ promiseHook.st = Unmounted
    /\ promiseHook' = [st |-> Mounted, state |-> Pending, deps |-> deps,
                       loading |-> loading]
    /\ promises' = Effect(promises, deps, loading)
    /\ UNCHANGED exceptPromise

\* a render with another dependency or loading: cleanup, then the effect
PromiseRender(deps, loading) ==
    /\ promiseHook.st = Mounted
    /\ <<deps, loading>> # <<promiseHook.deps, promiseHook.loading>>
    /\ loading \/ Len(promises) < MaxPromises
    /\ promiseHook' = [promiseHook EXCEPT !.state = Pending, !.deps = deps,
                                          !.loading = loading]
    /\ promises' = Effect(Stop(promises), deps, loading)
    /\ UNCHANGED exceptPromise

\* the promise of PromiseResult e settles; its second emit("change", ...)
\* calls setState in the listener if it is still registered
PromiseSettle(e, outcome) ==
    /\ e \in 1..Len(promises)
    /\ promises[e].state = "pending"
    /\ promises' = [promises EXCEPT ![e] = Settled(@, outcome)]
    /\ promiseHook' = IF promises[e].on
                      THEN [promiseHook EXCEPT !.state = Change(promises'[e])]
                      ELSE promiseHook
    /\ UNCHANGED exceptPromise

\* unmount: the cleanup of the effect
PromiseUnmount ==
    /\ promiseHook.st = Mounted
    /\ promiseHook' = [promiseHook EXCEPT !.st = Gone]
    /\ promises' = Stop(promises)
    /\ UNCHANGED exceptPromise

InitPromise == InitWith({TestProgram})

NextPromise ==
    \/ \E d \in DepValues : \E l \in BOOLEAN : PromiseMount(d, l)
    \/ \E d \in DepValues : \E l \in BOOLEAN : PromiseRender(d, l)
    \/ \E e \in 1..MaxPromises : \E o \in Outcomes : PromiseSettle(e, o)
    \/ PromiseUnmount

\* a component using usePromise mounts, renders with other dependencies or
\* loading, its promises settle in any order, and it unmounts
PromiseSpec == InitPromise /\ [][NextPromise]_vars


\* ======================================================= useDebouncedCallback
\* src/unnamed/part_006, lines 56 - 68.  A pending timer is [id, rem, args]:
\* its id, the time left before it is due and the arguments its function
\* passes to handleCallback.  Time is not kept; what is kept is the time left
\* of each timer and the time since the last call of the debounced function
\* (burst.age, which stops counting at the longest delay).  burst.calls is 1
\* after a call made with no timer pending and 2 after a call made while one
\* was: the call belongs to the burst of the call before it.

MaxDelay == CHOOSE d \in Delays : \A e \in Delays : e <= d

\* a debounced function that does not clear the previous timer
ClearNothing(ts, id) == ts

\* window.clearTimeout(id)
ClearTimeout(ts, id) == {t \in ts : t.id # id}

\* window.setTimeout(() => handleCallback(...args), delay), returning id
SetTimeout(ts, id, args, delay) ==
    ts \cup {[id |-> id, rem |-> delay, args |-> args]}

\* first render with the given delay
DebounceMount(delay) ==
    /\ debounceHook.st = Unmounted
    /\ debounceHook' = [debounceHook EXCEPT !.st = Mounted, !.delay = delay]
    /\ UNCHANGED <<timers, timerCount, burst>>
    /\ UNCHANGED exceptDebounce

\* a render with another delay: useCallback returns a new debounced
\* function, debounceTimerRef is the same
DebounceRender(delay) ==
    /\ debounceHook.st = Mounted
    /\ delay # debounceHook.delay
    /\ debounceHook' = [debounceHook EXCEPT !.delay = delay]
    /\ UNCHANGED <<timers, timerCount, burst>>
    /\ UNCHANGED exceptDebounce

\* the component calls the debounced function with args
DebounceCall(args) ==
    /\ debounceHook.st = Mounted
    /\ timerCount < MaxTimers
    /\ timerCount' = timerCount + 1
    /\ timers' = SetTimeout(ClearTimeout(timers, debounceHook.debounceTimerRef),
                            timerCount', args, debounceHook.delay)
    /\ debounceHook' = [debounceHook EXCEPT !.debounceTimerRef = timerCount']
    /\ burst' = [calls |-> IF timers = {} THEN 1 ELSE 2, args |-> args,
                 delay |-> debounceHook.delay, age |-> 0, invoked |-> <<>>]
    /\ UNCHANGED exceptDebounce

\* time passes, by no more than the time left of any pending timer
TimePasses(d) ==
    /\ \A t \in timers : d <= t.rem
    /\ timers # {} \/ (burst.calls > 0 /\ burst.age < MaxDelay)
    /\ timers' = {[t EXCEPT !.rem = @ - d] : t \in timers}
    /\ burst' = [burst EXCEPT
                    !.age = IF @ + d > MaxDelay THEN MaxDelay ELSE @ + d]
    /\ UNCHANGED <<debounceHook, timerCount>>
    /\ UNCHANGED exceptDebounce

\* a timer is due: its function calls handleCallback, which calls the
\* callback of the last render
TimerFires(id) ==
    \E t \in timers :
        /\ t.id = id
        /\ t.rem = 0
        /\ timers' = timers \ {t}
        /\ burst' = [burst EXCEPT !.invoked = Append(@, t.args)]
        /\ UNCHANGED <<debounceHook, timerCount>>
        /\ UNCHANGED exceptDebounce

\* unmount: the cleanup of the effect clears the timer of debounceTimerRef
DebounceUnmount ==
    /\ debounceHook.st = Mounted
    /\ debounceHook' = [debounceHook EXCEPT !.st = Gone]
    /\ timers' = ClearTimeout(timers, debounceHook.debounceTimerRef)
    /\ UNCHANGED <<timerCount, burst>>
    /\ UNCHANGED exceptDebounce

InitDebounce == InitWith({TestProgram})

NextDebounce ==
    \/ \E delay \in Delays : DebounceMount(delay)
    \/ \E delay \in Delays : DebounceRender(delay)
    \/ \E args \in Args : DebounceCall(args)
    \/ \E d \in Ticks : TimePasses(d)
    \/ \E id \in 1..MaxTimers : TimerFires(id)
    \/ DebounceUnmount

\* a component using useDebouncedCallback mounts, calls the debounced
\* function while time passes and timers fire, and unmounts
DebounceSpec == InitDebounce /\ [][NextDebounce]_vars

\* ========================================================= useDebouncedEffect
\* src/src/hooks/useDebouncedEffect/index.ts, lines 47 - 61.  A pending timer
\* is [id, rem, deps]: deps is the dependency value of the render whose
\* effect function the timer calls.  destructor.current is "null" or the
\* dependency value of the effect run that returned it.  The delay is the one
\* of the first render.

\* a cleanup without clearTimeout(timeout)
CleanupKeepsTimer(ts, id) == ts

\* the cleanup of the hook's useEffect, as far as the timers go
Cleanup(ts, id) == {t \in ts : t.id # id}

\* the body of the hook's useEffect: setTimeout(..., delay)
Schedule(ts, id, deps, delay) ==
    ts \cup {[id |-> id, rem |-> delay, deps |-> deps]}

\* first render with the given dependency value and delay
EffectMount(deps, delay) ==
    /\ effectHook.st = Unmounted
    /\ effectCount' = effectCount + 1
    /\ effectTimers' = Schedule(effectTimers, effectCount', deps, delay)
    /\ effectHook' = [effectHook EXCEPT !.st = Mounted, !.deps = deps,
                                        !.delay = delay,
                                        !.timeout = effectCount']
    /\ settle' = [age |-> 0, runs |-> <<>>]
    /\ UNCHANGED exceptEffect

\* a render with another dependency value: cleanup, then the effect body
EffectDepsChange(deps) ==
    /\ effectHook.st = Mounted
    /\ deps # effectHook.deps
    /\ effectCount < MaxEffectTimers
    /\ effectCount' = effectCount + 1
    /\ effectTimers' = Schedule(Cleanup(effectTimers, effectHook.timeout),
                                effectCount', deps, effectHook.delay)
    /\ effectHook' = [effectHook EXCEPT !.deps = deps,
                                        !.timeout = effectCount']
    /\ settle' = [age |-> 0, runs |-> <<>>]
    /\ UNCHANGED exceptEffect

\* time passes, by no more than the time left of any pending timer
EffectTimePasses(d) ==
    /\ \A t \in effectTimers : d <= t.rem
    /\ effectTimers # {} \/ (effectHook.st = Mounted /\ settle.age < MaxDelay)
    /\ effectTimers' = {[t EXCEPT !.rem = @ - d] : t \in effectTimers}
    /\ settle' = [settle EXCEPT
                     !.age = IF @ + d > MaxDelay THEN MaxDelay ELSE @ + d]
    /\ UNCHANGED <<effectHook, effectCount>>
    /\ UNCHANGED exceptEffect

\* a timer is due: the previous destructor is called, then effect()
EffectTimerFires(id) ==
    \E t \in effectTimers :
        /\ t.id = id
        /\ t.rem = 0
        /\ effectTimers' = effectTimers \ {t}
        /\ effectHook' = [effectHook EXCEPT !.destructor = t.deps]
        /\ settle' = [settle EXCEPT !.runs = Append(@, t.deps)]
        /\ UNCHANGED effectCount
        /\ UNCHANGED exceptEffect

\* unmount: the cleanup
EffectUnmount ==
    /\ effectHook.st = Mounted
    /\ effectHook' = [effectHook EXCEPT !.st = Gone]
    /\ effectTimers' = Cleanup(effectTimers, effectHook.timeout)
    /\ UNCHANGED <<effectCount, settle>>
    /\ UNCHANGED exceptEffect

InitEffect == InitWith({TestProgram})

NextEffect ==
    \/ \E d \in DepValues : \E delay \in Delays : EffectMount(d, delay)
    \/ \E d \in DepValues : EffectDepsChange(d)
    \/ \E d \in Ticks : EffectTimePasses(d)
    \/ \E id \in 1..MaxEffectTimers : EffectTimerFires(id)
    \/ EffectUnmount

\* a component using useDebouncedEffect mounts, renders with changing
\* dependencies while time passes and timers fire, and unmounts
EffectSpec == InitEffect /\ [][NextEffect]_vars

\* ============================================================ useLocalStorage
\* src/jest.config.js, lines 143 - 227.  storageMode is "ok" when getItem and
\* setItem work, "full" when setItem throws (quota exceeded) and getItem
\* works, "denied" when both throw.  Values are numbers, items are their
\* JSON texts.

StorageKey(h) == StorageProps[h].key

\* JSON.stringify of a number
ToJson(value) == ToString(value)

\* JSON.parse of the text of a number
FromJson(item) == CHOOSE value \in StorageValues : ToString(value) = item

\* the truth value JavaScript gives getItem's result: null and "" are false
TruthyItem(item) == item # NoItem /\ item # ""

\* the item the initializer of useState parses: the Map is read only when
\* getItem throws
StoredItem(k) ==
    IF storageMode # "denied" THEN localStorage[k] ELSE storageCache[k]

\* the initializer of useState
InitialStorage(h) ==
    IF TruthyItem(StoredItem(StorageKey(h)))
    THEN FromJson(StoredItem(StorageKey(h)))
    ELSE StorageProps[h].initialValue

\* the listener of the mount effect, called with (_id, key, value): its
\* parameter key hides the key of the hook, so `key === key` holds
StorageListens(g, sender, key) == key = key /\ sender # g

\* first render and the mount effect
StorageMount(h) ==
    /\ storageHook[h].st = Unmounted
    /\ storageHook' = [storageHook EXCEPT
                          ![h] = [st |-> Mounted,
                                  storedValue |-> InitialStorage(h),
                                  closure |-> InitialStorage(h)]]
    /\ UNCHANGED <<localStorage, storageMode, storageCache, written>>
    /\ UNCHANGED exceptStorage

\* setValue(value) with a plain value
StorageSetValue(h, value) ==
    /\ storageHook[h].st = Mounted
    /\ IF storageMode = "ok"
       THEN /\ localStorage' = [localStorage EXCEPT
                                   ![StorageKey(h)] = ToJson(value)]
            /\ UNCHANGED storageCache
       ELSE /\ storageCache' = [storageCache EXCEPT
                                   ![StorageKey(h)] = ToJson(value)]
            /\ UNCHANGED localStorage
    /\ storageHook' =
           [g \in StorageHooks |->
               IF g = h
               THEN [storageHook[g] EXCEPT !.storedValue = value]
               ELSE IF storageHook[g].st = Mounted
                       /\ StorageListens(g, h, StorageKey(h))
                    THEN [storageHook[g] EXCEPT
                             !.storedValue = storageHook[h].closure]
                    ELSE storageHook[g]]
    /\ written' = [written EXCEPT
                      ![StorageKey(h)] = [set |-> TRUE, value |-> value]]
    /\ UNCHANGED storageMode
    /\ UNCHANGED exceptStorage

\* the cleanup of the mount effect
StorageUnmount(h) ==
    /\ storageHook[h].st = Mounted
    /\ storageHook' = [storageHook EXCEPT ![h].st = Gone]
    /\ UNCHANGED <<localStorage, storageMode, storageCache, written>>
    /\ UNCHANGED exceptStorage

\* localStorage stops working: it is full from now on, or (only before
\* anything was written to it) access to it is denied
StorageBreaks(mode) ==
    /\ storageMode = "ok"
    /\ mode = "denied" => \A k \in StorageKeys : localStorage[k] = NoItem
    /\ storageMode' = mode
    /\ UNCHANGED <<localStorage, storageCache, storageHook, written>>
    /\ UNCHANGED exceptStorage

InitStorage == InitWith({TestProgram})

NextStorage ==
    \/ \E h \in StorageHooks : StorageMount(h)
    \/ \E h \in StorageHooks : \E value \in StorageValues :
           StorageSetValue(h, value)
    \/ \E h \in StorageHooks : StorageUnmount(h)
    \/ \E mode \in {"full", "denied"} : StorageBreaks(mode)

\* components using useLocalStorage mount, set values and unmount, and
\* localStorage may stop working
StorageSpec == InitStorage /\ [][NextStorage]_vars

\* ============================================================ useEventEmitter
\* src/unnamed/part_004, lines 59 - 82.  One component listens to the event
\* with a callback; destructor.current is 0 (null) or the number of the
\* execution of the callback that returned it.

\* destructor.current?.() over the executions runs
CallDestructor(runs, destructor) ==
    IF destructor = 0 THEN runs
    ELSE [runs EXCEPT ![destructor].called = TRUE]

\* first render and the effect: cacheEvents.on(name, ...)
EmitterMount ==
    /\ emitterHook.st = Unmounted
    /\ emitterHook' = [emitterHook EXCEPT !.st = Mounted, !.on = TRUE]
    /\ UNCHANGED emitterRuns
    /\ UNCHANGED exceptEmitter

\* a render with another dependency value: event.stop(), then the effect
EmitterDepsChange(deps) ==
    /\ emitterHook.st = Mounted
    /\ deps # emitterHook.deps
    /\ emitterHook' = [emitterHook EXCEPT !.deps = deps, !.on = TRUE]
    /\ UNCHANGED emitterRuns
    /\ UNCHANGED exceptEmitter

\* emit(...args) by any component: the listener calls the previous
\* destructor, then the callback, which returns a destructor or nothing
Emitted(returns) ==
    /\ emitterHook.on
    /\ Len(emitterRuns) < MaxEmits
    /\ emitterRuns' = Append(CallDestructor(emitterRuns, emitterHook.destructor),
                             [returned |-> returns, called |-> FALSE])
    /\ emitterHook' = [emitterHook EXCEPT
                          !.destructor = IF returns THEN Len(emitterRuns')
                                         ELSE 0]
    /\ UNCHANGED exceptEmitter

\* unmount: the cleanup of the effect, event.stop()
EmitterUnmount ==
    /\ emitterHook.st = Mounted
    /\ emitterHook' = [emitterHook EXCEPT !.st = Gone, !.on = FALSE]
    /\ UNCHANGED emitterRuns
    /\ UNCHANGED exceptEmitter

InitEmitter == InitWith({TestProgram})

NextEmitter ==
    \/ EmitterMount
    \/ \E d \in DepValues : EmitterDepsChange(d)
    \/ \E returns \in BOOLEAN : Emitted(returns)
    \/ EmitterUnmount

\* a component using useEventEmitter with a callback mounts, renders with
\* other dependencies, the event is emitted, and it unmounts
EmitterSpec == InitEmitter /\ [][NextEmitter]_vars

\* ========================================================== useSubscribeEvent
\* src/src/hooks/useSubscribeEvent/index.ts.  The scope made by
\* createSubscribeEvent wraps an event emitter; a listener registered on it
\* is [event, handler, once].  on and once register the handler, off removes
\* the handler registered with on, offOnce the one registered with once, and
\* emit calls the listeners of the event and drops the once ones.  emitOnce
\* is not modelled.

\* scope.on(event, handler)
On(reg, event, handler) ==
    reg \cup {[event |-> event, handler |-> handler, once |-> FALSE]}

\* scope.once(event, handler)
Once(reg, event, handler) ==
    reg \cup {[event |-> event, handler |-> handler, once |-> TRUE]}

\* scope.off(event, handler)
Off(reg, event, handler) ==
    {l \in reg : ~(l.event = event /\ l.handler = handler /\ ~l.once)}

\* a cleanup without scope.offOnce
OffOnceNothing(reg, event, handler) == reg

\* scope.offOnce(event, handler)
OffOnce(reg, event, handler) ==
    {l \in reg : ~(l.event = event /\ l.handler = handler /\ l.once)}

\* the listeners scope.emit(event) calls
Called(reg, event) == {l \in reg : l.event = event}

\* the listeners left after scope.emit(event)
AfterEmit(reg, event) == {l \in reg : ~(l.event = event /\ l.once)}

\* the body of the effect
Subscribe(reg, event, isOnce, handler) ==
    IF isOnce THEN Once(reg, event, handler) ELSE On(reg, event, handler)

\* the cleanup of the effect
Unsubscribe(reg, event, handler) ==
    OffOnce(Off(reg, event, handler), event, handler)

\* first render with the given event and isOnce, and the effect
SubscribeMount(event, isOnce) ==
    /\ subscribeHook.st = Unmounted
    /\ handlerCount' = handlerCount + 1
    /\ registry' = Subscribe(registry, event, isOnce, handlerCount')
    /\ subscribeHook' = [st |-> Mounted, event |-> event, isOnce |-> isOnce,
                         handler |-> handlerCount']
    /\ UNCHANGED subCalls
    /\ UNCHANGED exceptSubscribe

\* a render with another event or isOnce: cleanup, then the effect
SubscribeRender(event, isOnce) ==
    /\ subscribeHook.st = Mounted
    /\ <<event, isOnce>> # <<subscribeHook.event, subscribeHook.isOnce>>
    /\ handlerCount < MaxHandlers
    /\ handlerCount' = handlerCount + 1
    /\ registry' = Subscribe(Unsubscribe(registry, subscribeHook.event,
                                         subscribeHook.handler),
                             event, isOnce, handlerCount')
    /\ subscribeHook' = [subscribeHook EXCEPT !.event = event,
                                              !.isOnce = isOnce,
                                              !.handler = handlerCount']
    /\ UNCHANGED subCalls
    /\ UNCHANGED exceptSubscribe

\* scope.emit(event) by any component: every listener of the event calls
\* the callback through its handler
ScopeEmit(event) ==
    /\ subCalls + Cardinality(Called(registry, event)) <= MaxSubCalls
    /\ subCalls' = subCalls + Cardinality(Called(registry, event))
    /\ registry' = AfterEmit(registry, event)
    /\ <<subCalls', registry'>> # <<subCalls, registry>>
    /\ UNCHANGED <<subscribeHook, handlerCount>>
    /\ UNCHANGED exceptSubscribe

\* unmount: the cleanup of the effect
SubscribeUnmount ==
    /\ subscribeHook.st = Mounted
    /\ subscribeHook' = [subscribeHook EXCEPT !.st = Gone]
    /\ registry' = Unsubscribe(registry, subscribeHook.event,
                               subscribeHook.handler)
    /\ UNCHANGED <<handlerCount, subCalls>>
    /\ UNCHANGED exceptSubscribe

InitSubscribe == InitWith({TestProgram})

NextSubscribe ==
    \/ \E e \in Events : \E o \in BOOLEAN : SubscribeMount(e, o)
    \/ \E e \in Events : \E o \in BOOLEAN : SubscribeRender(e, o)
    \/ \E e \in Events : ScopeEmit(e)
    \/ SubscribeUnmount

\* a component using useSubscribeEvent mounts, renders with another event
\* or isOnce, events are emitted on the scope, and it unmounts
SubscribeSpec == InitSubscribe /\ [][NextSubscribe]_vars

\* ============================================================= useRefObserver
\* src/src/hooks/useRefObserver/index.ts, lines 59 - 82.  destructor.current
\* is 0 (null) or the number of the run of effect that returned it.

\* destructor.current?.()
CallCleanup(runs, destructor) ==
    IF destructor = 0 THEN runs
    ELSE [runs EXCEPT ![destructor].cleanups = @ + 1]

\* a change that keeps the previous destructor when effect returns nothing
KeepDestructor(returns, run, previous) == IF returns THEN run ELSE previous

\* destructor.current = effect(ref.current) || null
NewDestructor(returns, run, previous) == IF returns THEN run ELSE 0

\* change(value), with effect returning a cleanup or nothing: the hook and
\* the runs after it
RefChange(hook, runs, value, returns) ==
    LET called == CallCleanup(runs, hook.destructor)
    IN [hook |-> [hook EXCEPT
                     !.current = value,
                     !.destructor = NewDestructor(returns, Len(runs) + 1,
                                                  hook.destructor)],
        runs |-> Append(called, [value |-> value, returned |-> returns,
                                 cleanups |-> 0])]

\* first render and the effect, which calls change(ref.current)
ObserverMount(returns) ==
    LET c == RefChange(observerHook, observerRuns, observerHook.current,
                       returns)
    IN /\ observerHook.st = Unmounted
       /\ observerHook' = [c.hook EXCEPT !.st = Mounted]
       /\ observerRuns' = c.runs
       /\ UNCHANGED exceptObserver

\* a render with another dependency value: the effect calls
\* change(ref.current)
ObserverDepsChange(deps, returns) ==
    LET c == RefChange(observerHook, observerRuns, observerHook.current,
                       returns)
    IN /\ observerHook.st = Mounted
       /\ deps # observerHook.deps
       /\ Len(observerRuns) < MaxObserverRuns
       /\ observerHook' = [c.hook EXCEPT !.deps = deps]
       /\ observerRuns' = c.runs
       /\ UNCHANGED exceptObserver

\* ref.current = value, by the component or by whoever holds the ref
ObserverAssign(value, returns) ==
    LET c == RefChange(observerHook, observerRuns, value, returns)
    IN /\ observerHook.st # Unmounted
       /\ Len(observerRuns) < MaxObserverRuns
       /\ observerHook' = c.hook
       /\ observerRuns' = c.runs
       /\ UNCHANGED exceptObserver

\* unmount: the effect has no cleanup
ObserverUnmount ==
    /\ observerHook.st = Mounted
    /\ observerHook' = [observerHook EXCEPT !.st = Gone]
    /\ UNCHANGED observerRuns
    /\ UNCHANGED exceptObserver

InitObserver == InitWith({TestProgram})

NextObserver ==
    \/ \E r \in BOOLEAN : ObserverMount(r)
    \/ \E d \in DepValues : \E r \in BOOLEAN : ObserverDepsChange(d, r)
    \/ \E v \in RefValues : \E r \in BOOLEAN : ObserverAssign(v, r)
    \/ ObserverUnmount

\* a component using useRefObserver mounts, renders with other
\* dependencies, assigns to ref.current and unmounts
ObserverSpec == InitObserver /\ [][NextObserver]_vars

\* =========================================================== useEventListener
\* src/src/hooks/useEventListener/index.ts, lines 83 - 120.  handleListener
\* is one function for the life of the component (useCallbackRef), so an
\* attachment is the pair of a target and an event name.

\* element?.current ?? window
TargetOf(element) == IF element \in {NoElement, Null} THEN Window ELSE element

\* target?.removeEventListener(event, handleListener)
RemoveEventListener(attached, target, event) == attached \ {<<target, event>>}

\* target?.addEventListener(event, handleListener)
AddEventListener(attached, target, event) ==
    IF target = Null THEN attached ELSE attached \cup {<<target, event>>}

\* updateEvent(after), created with the event name `event`
UpdateEvent(attached, current, after, event) ==
    AddEventListener(RemoveEventListener(attached, current, event), after, event)

\* first render and the effect
ListenerMount(event, element) ==
    LET target == TargetOf(element)
    IN /\ listenerHook.st = Unmounted
       /\ listenerHook' = [st |-> Mounted, event |-> event, element |-> element,
                           current |-> target, targetElement |-> target,
                           effectEvent |-> event]
       /\ listeners' = UpdateEvent(listeners, target, target, event)
       /\ UNCHANGED exceptListener

\* a render with another event name or another element.current: the
\* cleanup of the previous effect, then the effect
ListenerRender(event, element) ==
    LET target == TargetOf(element)
        cleaned == RemoveEventListener(listeners, listenerHook.targetElement,
                                       listenerHook.effectEvent)
    IN /\ listenerHook.st = Mounted
       /\ event # listenerHook.event \/ element # listenerHook.element
       /\ listenerHook' = [listenerHook EXCEPT
              !.event = event, !.element = element, !.current = target,
              !.targetElement = target, !.effectEvent = event]
       /\ listeners' = UpdateEvent(cleaned, listenerHook.current, target, event)
       /\ UNCHANGED exceptListener

\* ref.current = value on the returned ref
ListenerAssign(value) ==
    /\ listenerHook.st = Mounted
    /\ listenerHook' = [listenerHook EXCEPT !.current = value]
    /\ listeners' = UpdateEvent(listeners, listenerHook.current, value,
                                listenerHook.event)
    /\ UNCHANGED exceptListener

\* unmount: the cleanup of the effect
ListenerUnmount ==
    /\ listenerHook.st = Mounted
    /\ listenerHook' = [listenerHook EXCEPT !.st = Gone]
    /\ listeners' = RemoveEventListener(listeners, listenerHook.targetElement,
                                        listenerHook.effectEvent)
    /\ UNCHANGED exceptListener

InitListener == InitWith({TestProgram})

NextListener ==
    \/ \E e \in Events : \E el \in Elements \cup {NoElement, Null} :
           ListenerMount(e, el)
    \/ \E e \in Events : \E el \in Elements \cup {NoElement, Null} :
           ListenerRender(e, el)
    \/ \E v \in Elements \cup {Window, Null} : ListenerAssign(v)
    \/ ListenerUnmount

\* a component using useEventListener mounts, renders with other event
\* names and elements, assigns to ref.current and unmounts
ListenerSpec == InitListener /\ [][NextListener]_vars

\* ================================================================ useCountdown
\* src/src/hooks/useCountdown/.test.ts, lines 46 - 58 and 144 - 175.  Time is
\* counted in seconds (1000 ms); options.round and options.formatTime keep
\* their defaults.

\* a % b of JavaScript: the sign of the dividend
JsRem(a, b) == IF a >= 0 THEN a % b ELSE 0 - ((0 - a) % b)

\* getIndex(targetDate, dateNow, formatTime)
GetIndex(targetDate, dateNow) ==
    LET difference == targetDate - dateNow
    IN [difference |-> difference,
        years   |-> difference \div (60 * 60 * 24 * 365),
        months  |-> difference \div (60 * 60 * 24 * 30),
        days    |-> difference \div (60 * 60 * 24),
        hours   |-> JsRem(difference, 60 * 60 * 24) \div (60 * 60),
        minutes |-> JsRem(difference, 60 * 60) \div 60,
        seconds |-> JsRem(difference, 60),
        formated |-> "formated"]

\* the interval the effect chooses when options.interval is not a number
IntervalTime(index) ==
    IF index.years > 0 THEN 60 * 60 * 24 * 365
    ELSE IF index.months > 0 THEN 60 * 60 * 24 * 30
    ELSE IF index.days > 0 THEN 60 * 60 * 24
    ELSE IF index.hours > 0 THEN 60 * 60
    ELSE IF index.minutes > 0 THEN 60
    ELSE 1

\* ["Y", "M", "D", "h", "m", "s"].findIndex(r => r === round.trim()), round = ""
RoundN == -1

\* what the hook returns: the formatted target, or format applied to the index
Returned(hook) ==
    LET index == GetIndex(hook.target, hook.timeNow)
    IN IF \/ index.years > 0 /\ RoundN > 0
          \/ index.months > 0 /\ RoundN > 1
          \/ index.days > 0 /\ RoundN > 2
          \/ index.hours > 0 /\ RoundN > 3
          \/ index.minutes > 0 /\ RoundN > 4
          \/ index.seconds > 0 /\ RoundN > 5
       THEN [formated |-> TRUE, date |-> index]
       ELSE [formated |-> FALSE, date |-> index]

\* an effect that sets the timeout also after the target
TimeoutAlways(hook) ==
    IF hook.interval = Dynamic
    THEN IntervalTime(GetIndex(hook.target, hook.timeNow))
    ELSE hook.interval

\* the effect: no timeout once timeNow has reached the target, else a
\* timeout of options.interval or of the chosen interval
Timeout(hook) ==
    IF hook.timeNow >= hook.target THEN NoTimer
    ELSE IF hook.interval = Dynamic
         THEN IntervalTime(GetIndex(hook.target, hook.timeNow))
         ELSE hook.interval

\* useState(() => startDate.getTime() > Date.now() ? startDate.getTime() : Date.now())
InitialTimeNow(startDate, now) ==
    IF startDate # Now /\ startDate > now THEN startDate ELSE now

\* first render and the effect
CountdownMount(target, startDate, interval) ==
    LET hook == [st |-> Mounted, target |-> target, startDate |-> startDate,
                 interval |-> interval,
                 timeNow |-> InitialTimeNow(startDate, clock),
                 timer |-> NoTimer, renders |-> 0]
    IN /\ countdownHook.st = Unmounted
       /\ countdownHook' = [hook EXCEPT !.timer = Timeout(hook)]
       /\ UNCHANGED <<clock, updates>>
       /\ UNCHANGED exceptCountdown

\* a second passes
CountdownTick ==
    /\ clock < MaxClock
    /\ clock' = clock + 1
    /\ countdownHook' = [countdownHook EXCEPT
           !.timer = IF @ > 0 THEN @ - 1 ELSE @]
    /\ UNCHANGED updates
    /\ UNCHANGED exceptCountdown

\* the timeout fires: setTimeNow(Date.now()), the render and the effect
CountdownTimeout ==
    LET hook == [countdownHook EXCEPT !.timeNow = clock]
    IN /\ countdownHook.st = Mounted
       /\ countdownHook.timer = 0
       /\ countdownHook' = [hook EXCEPT !.timer = Timeout(hook)]
       /\ updates' = updates + 1
       /\ UNCHANGED clock
       /\ UNCHANGED exceptCountdown

\* a render caused by the parent, with a new Date object as startDate: the
\* cleanup of the effect, then the effect
CountdownRender ==
    /\ countdownHook.st = Mounted
    /\ countdownHook.renders < MaxParentRenders
    /\ clock + MaxInterval <= MaxClock
    /\ countdownHook' = [countdownHook EXCEPT
           !.timer = Timeout(countdownHook), !.renders = @ + 1]
    /\ UNCHANGED <<clock, updates>>
    /\ UNCHANGED exceptCountdown

\* unmount: the cleanup of the effect
CountdownUnmount ==
    /\ countdownHook.st = Mounted
    /\ countdownHook' = [countdownHook EXCEPT !.st = Gone, !.timer = NoTimer]
    /\ UNCHANGED <<clock, updates>>
    /\ UNCHANGED exceptCountdown

InitCountdown == InitWith({TestProgram})

NextCountdown ==
    \/ \E target \in 0..MaxTarget : \E startDate \in {Now} \cup 1..MaxTarget :
           \E interval \in {Dynamic} \cup 1..MaxInterval :
               CountdownMount(target, startDate, interval)
    \/ CountdownTick
    \/ CountdownTimeout
    \/ CountdownRender
    \/ CountdownUnmount

\* a component using useCountdown mounts at some time, time passes, the
\* timeout fires, the parent renders and the component unmounts
CountdownSpec == InitCountdown /\ [][NextCountdown]_vars

\* the same, where time passes and a timeout that is due fires
CountdownLive ==
    /\ CountdownSpec
    /\ WF_vars(CountdownTick)
    /\ WF_vars(CountdownTimeout)

\* ============================================= useSharedValue, useSharedValues
\* src/src/hooks/useId/index.ts, lines 83 - 96, and src/unnamed/part_004,
\* lines 137 - 150.  SharedValue and SharedValues are classes of
\* @ismael1361/animation.

\* a write that notifies only when the value changes
WriteValueIfChanged(cell, v) ==
    IF cell.value = v THEN cell
    ELSE [value |-> v, changes |-> cell.changes + 1]

\* set value(v) of a SharedValue: store v and emit "change"
WriteValue(cell, v) == [value |-> v, changes |-> cell.changes + 1]

\* a write to the field k of a SharedValues: the field emits "change", the
\* group emits "change" once for every change of a field
WriteField(values, k, v) ==
    LET cell == WriteValue(values.current[k], v)
    IN [current |-> [values.current EXCEPT ![k] = cell],
        changes |-> values.changes
                        + (cell.changes - values.current[k].changes)]

\* the listener of the effect, () => setRender({}), for every "change"
\* emitted while the component is subscribed
SetRender(hook, emitted) ==
    IF hook.st = Mounted THEN [hook EXCEPT !.renders = @ + emitted] ELSE hook

\* first render and the effect: on("change", ...)
SharedMount(h) ==
    /\ sharedHooks[h].st = Unmounted
    /\ sharedHooks' = [sharedHooks EXCEPT ![h].st = Mounted]
    /\ UNCHANGED <<sharedValue, sharedValues, sharedWrites>>
    /\ UNCHANGED exceptShared

\* shared.value = v, v equal to the current value or not
SharedValueWrite(v) ==
    LET cell == WriteValue(sharedValue, v)
    IN /\ sharedHooks["useSharedValue"].st # Unmounted
       /\ sharedWrites["useSharedValue"] < MaxWrites
       /\ sharedValue' = cell
       /\ sharedHooks' = [sharedHooks EXCEPT !["useSharedValue"] =
              SetRender(@, cell.changes - sharedValue.changes)]
       /\ sharedWrites' = [sharedWrites EXCEPT !["useSharedValue"] = @ + 1]
       /\ UNCHANGED sharedValues
       /\ UNCHANGED exceptShared

\* state.k.value = v
SharedValuesWrite(k, v) ==
    LET values == WriteField(sharedValues, k, v)
    IN /\ sharedHooks["useSharedValues"].st # Unmounted
       /\ sharedWrites["useSharedValues"] < MaxWrites
       /\ sharedValues' = values
       /\ sharedHooks' = [sharedHooks EXCEPT !["useSharedValues"] =
              SetRender(@, values.changes - sharedValues.changes)]
       /\ sharedWrites' = [sharedWrites EXCEPT !["useSharedValues"] = @ + 1]
       /\ UNCHANGED sharedValue
       /\ UNCHANGED exceptShared

\* unmount: the cleanup of the effect, event.stop()
SharedUnmount(h) ==
    /\ sharedHooks[h].st = Mounted
    /\ sharedHooks' = [sharedHooks EXCEPT ![h].st = Gone]
    /\ UNCHANGED <<sharedValue, sharedValues, sharedWrites>>
    /\ UNCHANGED exceptShared

InitShared == InitWith({TestProgram})

NextShared ==
    \/ \E h \in SharedHooks : SharedMount(h)
    \/ \E v \in SharedNumbers : SharedValueWrite(v)
    \/ \E k \in SharedKeys : \E v \in SharedNumbers : SharedValuesWrite(k, v)
    \/ \E h \in SharedHooks : SharedUnmount(h)

\* a component using useSharedValue and one using useSharedValues mount,
\* the values are written and the components unmount
SharedSpec == InitShared /\ [][NextShared]_vars

\* ============================================================== useCallbackRef
\* src/src/hooks/useCallbackRef/index.ts, lines 52 - 60.  A render and its
\* commit are two steps; the effect runs with the commit.  The identity of
\* the returned function is the number of times useMemo has created it.

\* callbackRef.current?.(...args): the result of a callback is the pair of
\* the callback and its arguments
Invoke(callback, args) ==
    IF callback = Undefined THEN <<Undefined>> ELSE <<callback, args>>

\* an effect that runs only after the first render
StoreCallbackOnce(hook) == IF hook.st = Mounted THEN hook.current ELSE hook.callback

\* useEffect(() => { callbackRef.current = callback; })
StoreCallback(hook) == hook.callback

\* first render: useRef(callback), useMemo(..., [])
CallbackMount(callback) ==
    /\ callbackHook.st = Unmounted
    /\ callbackHook.fn = 0
    /\ callbackHook' = [callbackHook EXCEPT
           !.callback = callback, !.current = callback, !.fn = @ + 1]
    /\ UNCHANGED callbackCalls
    /\ UNCHANGED exceptCallback

\* a later render with a callback: useRef and useMemo keep their values
CallbackRender(callback) ==
    /\ callbackHook.st = Mounted
    /\ callbackHook.committed
    /\ callbackHook' = [callbackHook EXCEPT
           !.callback = callback, !.committed = FALSE]
    /\ UNCHANGED callbackCalls
    /\ UNCHANGED exceptCallback

\* the commit of the render and its effect
CallbackCommit ==
    /\ callbackHook.fn > 0
    /\ callbackHook.st # Gone
    /\ ~callbackHook.committed
    /\ callbackHook' = [callbackHook EXCEPT
           !.st = Mounted, !.committed = TRUE,
           !.current = StoreCallback(callbackHook)]
    /\ UNCHANGED callbackCalls
    /\ UNCHANGED exceptCallback

\* a call of the returned function, by whoever holds it
CallbackCall(args) ==
    /\ callbackHook.fn > 0
    /\ Len(callbackCalls) < MaxCalls
    /\ callbackCalls' = Append(callbackCalls,
           [fn |-> callbackHook.fn, args |-> args,
            result |-> Invoke(callbackHook.current, args)])
    /\ UNCHANGED callbackHook
    /\ UNCHANGED exceptCallback

\* unmount
CallbackUnmount ==
    /\ callbackHook.st = Mounted
    /\ callbackHook.committed
    /\ callbackHook' = [callbackHook EXCEPT !.st = Gone]
    /\ UNCHANGED callbackCalls
    /\ UNCHANGED exceptCallback

InitCallback == InitWith({TestProgram})

NextCallback ==
    \/ \E callback \in Callbacks : CallbackMount(callback)
    \/ \E callback \in Callbacks : CallbackRender(callback)
    \/ CallbackCommit
    \/ \E args \in Args : CallbackCall(args)
    \/ CallbackUnmount

\* a component using useCallbackRef renders with changing callbacks, the
\* returned function is called, the component unmounts
CallbackSpec == InitCallback /\ [][NextCallback]_vars

\* ================================================================ dom().margin
\* src/src/hooks/useAnimation/index.ts, lines 381 - 404, and
\* src/src/hooks/useAnimation/Utils.ts, line 3.

\* m[i] || otherwise: m[i] when it is there and not 0
OrElse(m, i, otherwise) ==
    IF i <= Len(m) /\ m[i] # 0 THEN m[i] ELSE otherwise

\* parseMargin(m)
ParseMargin(m) ==
    [top |-> m[1],
     right |-> OrElse(m, 2, m[1]),
     bottom |-> OrElse(m, 3, m[1]),
     left |-> OrElse(m, 4, OrElse(m, 2, m[1]))]

\* margin(value, {to}): fromValue and toValue; config.from is left out, so
\* from || value is value.  One call is followed: calls do not depend on
\* each other
Margin(value, to) ==
    /\ ~marginCall.called
    /\ marginCall' = [called |-> TRUE, value |-> value, to |-> to,
                      fromValue |-> ParseMargin(value),
                      toValue |-> ParseMargin(to)]
    /\ UNCHANGED exceptMargin

InitMargin == InitWith({TestProgram})

NextMargin ==
    \E value \in MarginDefinition : \E to \in MarginTo : Margin(value, to)

\* dom().margin is called with margin definitions of 1 to 4 values
MarginSpec == InitMargin /\ [][NextMargin]_vars

\* ===================================================================== history
\* src/unnamed/part_003, lines 24 - 78 and 141 - 170.  createBrowserHistory
\* (package history) reports push as "PUSH", replace as "REPLACE" and every
\* move in the stack (back, forward, go) as "POP".

\* listeners.indexOf(listener): 0 stands for -1, the others count from 1
IndexOf(list, listener) ==
    IF \E i \in 1..Len(list) : list[i] = listener
    THEN CHOOSE i \in 1..Len(list) :
             list[i] = listener /\ \A j \in 1..(i - 1) : list[j] # listener
    ELSE 0

\* listeners.splice(listeners.indexOf(listener), 1): the start -1 is the
\* last element
Splice(list, listener) ==
    LET at == IF IndexOf(list, listener) = 0 THEN Len(list)
              ELSE IndexOf(list, listener)
    IN [i \in 1..(IF list = <<>> THEN 0 ELSE Len(list) - 1) |->
           IF i < at THEN list[i] ELSE list[i + 1]]

\* for (const listener of listeners) listener(...): the iteration reads the
\* array as it is at every step; the listener l, when called, calls the
\* unsubscribe function of does[l] (0: of nobody)
RECURSIVE Dispatch(_, _, _, _)
Dispatch(list, i, does, called) ==
    IF i > Len(list) THEN [listeners |-> list, called |-> called]
    ELSE LET l == list[i]
             after == IF does[l] = 0 THEN list ELSE Splice(list, does[l])
         IN Dispatch(after, i + 1, does,
                     [called EXCEPT ![l] = @ + 1])

\* the handler of history.listen (lines 36 - 51): the index, then the loop
OnLocation(action, does) ==
    LET run == Dispatch(historyListeners.listeners, 1, does,
                        [l \in HistoryListenerIds |-> 0])
    IN /\ historyIndex' = CASE action = "PUSH" -> historyIndex + 1
                            [] action = "POP" -> historyIndex - 1
                            [] OTHER -> historyIndex
       /\ historyListeners' = [historyListeners EXCEPT
                                  !.listeners = run.listeners]
       /\ dispatched' =
              [before |-> historyListeners.listeners,
               removed |-> {l \in HistoryListenerIds :
                               /\ \E j \in 1..Len(historyListeners.listeners) :
                                      historyListeners.listeners[j] = l
                               /\ ~\E j \in 1..Len(run.listeners) :
                                      run.listeners[j] = l},
               called |-> run.called]

\* what the listeners called by a dispatch do: one of them calls the
\* unsubscribe function of a listener that has one, the others call none
Doings ==
    {[l \in HistoryListenerIds |-> IF l = who THEN target ELSE 0] :
        who \in HistoryListenerIds,
        target \in {0} \cup historyListeners.handles}

\* push(path, state): the entries after the current one are dropped
HistoryPush(does) ==
    /\ browser.navigations < MaxNavigations
    /\ browser.position < MaxStack
    /\ browser' = [position |-> browser.position + 1,
                   length |-> browser.position + 1,
                   navigations |-> browser.navigations + 1]
    /\ OnLocation("PUSH", does)
    /\ UNCHANGED exceptHistory

\* replace(path, state)
HistoryReplace(does) ==
    /\ browser.navigations < MaxNavigations
    /\ browser' = [browser EXCEPT !.navigations = @ + 1]
    /\ OnLocation("REPLACE", does)
    /\ UNCHANGED exceptHistory

\* go(delta), back(), forward(): a move inside the stack; a move out of
\* the stack does nothing
HistoryGo(delta, does) ==
    /\ browser.navigations < MaxNavigations
    /\ browser.position + delta \in 1..browser.length
    /\ browser' = [browser EXCEPT !.position = @ + delta,
                                  !.navigations = @ + 1]
    /\ OnLocation("POP", does)
    /\ UNCHANGED exceptHistory

\* history.listen(listener), as in the effect of useHistory; a function
\* listens once at a time
HistoryListen(listener) ==
    /\ IndexOf(historyListeners.listeners, listener) = 0
    /\ historyListeners' =
           [listeners |-> Append(historyListeners.listeners, listener),
            handles |-> historyListeners.handles \cup {listener}]
    /\ UNCHANGED <<browser, historyIndex, dispatched>>
    /\ UNCHANGED exceptHistory

\* the function returned by history.listen(listener) is called, as in the
\* cleanup of useHistory, for the first time or again
HistoryUnlisten(listener) ==
    /\ listener \in historyListeners.handles
    /\ historyListeners' =
           [historyListeners EXCEPT
               !.listeners = Splice(historyListeners.listeners, listener)]
    /\ UNCHANGED <<browser, historyIndex, dispatched>>
    /\ UNCHANGED exceptHistory

InitHistory == InitWith({TestProgram})

NextHistory ==
    \/ \E does \in Doings : HistoryPush(does)
    \/ \E does \in Doings : HistoryReplace(does)
    \/ \E delta \in Deltas : \E does \in Doings : HistoryGo(delta, does)
    \/ \E listener \in HistoryListenerIds : HistoryListen(listener)
    \/ \E listener \in HistoryListenerIds : HistoryUnlisten(listener)

\* the application navigates, listeners are registered and removed, also by
\* listeners during a dispatch
HistorySpec == InitHistory /\ [][NextHistory]_vars

\* ------------------------------------------------------------------ claims
Root(id) == sched[id].root

Vals(id) == sched[id].vals

Runs(id, prog) ==
    Created(id) /\ sched[id].prog = prog /\ Root(id).st \in {"run", "done"}

\* C1: at any time at most one scheduler created by the hook instance is
\* live, and it is the one held in getRef.current; every earlier one has
\* been destroyed
C1_AtMostOneLive ==
    /\ Cardinality({id \in SchedIds : Live(id)}) <= 1
    /\ \A id \in SchedIds : Live(id) => id = getRef

\* a dependency change has replaced a scheduler by a new, running one
C1_Witness ==
    /\ NumCreated = 2
    /\ sched[1].status = "Destroyed"
    /\ getRef = 2
    /\ sched[2].status = "Running"
    /\ sched[2].subs # {}

\* C2: once the component is unmounted, every scheduler the hook created is
\* destroyed: none is ticking, none is subscribed to the re-render trigger
C2_UnmountDestroys ==
    mounted = Gone =>
        \A id \in SchedIds :
            Created(id) => sched[id].status = "Destroyed" /\ sched[id].subs = {}

\* C3: the one-step program of the test starts at mount without a start
\* call, opacity is 0 right after mount, eventually is 1, and stays 1
Opacity == IF getRef = 0 THEN 0 ELSE Vals(getRef).opacity

C3_StartsAndSettles ==
    /\ [][Mount => (sched'[getRef'].status = "Running" /\ Opacity' = 0)]_vars
    /\ <>(mounted = Mounted /\ Opacity = 1000)
    /\ [][Opacity = 1000 => Opacity' = 1000]_vars

\* the timing step has completed and left opacity at 1
C3_Witness ==
    /\ mounted = Mounted
    /\ sched[getRef].prog = TestProgram
    /\ Root(getRef).st = "done"
    /\ sched[getRef].status = "Idle"
    /\ Opacity = 1000

\* C4: timing from 0 to 1 over 1000 ms, linear: the value written is 0 at
\* elapsed 0, 0.5 at elapsed 500 and 1 at every elapsed >= 1000, where the
\* step is completed; it is not completed while elapsed < 1000
C4_LinearTiming ==
    \A id \in SchedIds :
        Runs(id, LinearProgram) =>
            /\ Root(id).el = 0 => Vals(id).opacity = 0
            /\ Root(id).el = 500 => Vals(id).opacity = 500
            /\ Root(id).el >= 1000 => Vals(id).opacity = 1000 /\ Root(id).st = "done"
            /\ Root(id).el < 1000 => Root(id).st = "run"

\* the step sampled half way
C4_Witness ==
    \E id \in SchedIds :
        /\ Runs(id, LinearProgram)
        /\ Root(id).el = 500
        /\ Vals(id).opacity = 500

\* C5: parallel is completed exactly when every child is; with children of
\* 100 ms and 300 ms it is not completed before 300 ms of its own time, and
\* when it is, both targets hold their `to`
C5_ParallelCompletion ==
    \A id \in SchedIds :
        Runs(id, ParallelProgram) =>
            /\ Root(id).st = "done" <=>
                   \A k \in 1..Len(Root(id).kids) : Root(id).kids[k].st = "done"
            /\ Root(id).el < 300 => Root(id).st = "run"
            /\ Root(id).st = "done" =>
                   Vals(id).opacity = 1000 /\ Vals(id).scale = 1000

\* the short child has completed, the long one has not: parallel goes on
C5_Witness ==
    \E id \in SchedIds :
        /\ Runs(id, ParallelProgram)
        /\ Root(id).kids[1].st = "done"
        /\ Root(id).kids[2].st = "run"
        /\ Root(id).st = "run"

\* C6: any is completed exactly when a child is, the other child is
\* cancelled then, its target holds the partial value it wrote last and is
\* not written in any later step
AnyStep(id) == Root(id).kids[1]

AnyOver(id) == Runs(id, AnyProgram) /\ AnyStep(id).st = "done"

C6_AnyState ==
    \A id \in SchedIds :
        Runs(id, AnyProgram) =>
            /\ AnyStep(id).st = "done" <=>
                   \E k \in 1..2 : AnyStep(id).kids[k].st = "done"
            /\ AnyStep(id).st = "done" =>
                   /\ AnyStep(id).kids[1].st = "done"
                   /\ AnyStep(id).kids[2].st = "cancel"
                   /\ Vals(id).scale =
                          TimingValue(0, 1000, 300, AnyStep(id).kids[2].el)
                   /\ Vals(id).scale < 1000

C6_AnyRace ==
    /\ []C6_AnyState
    /\ [][\A id \in SchedIds :
              AnyOver(id) => sched'[id].vals.scale = Vals(id).scale]_vars

\* any is over, the chain it is part of has gone on ticking, and the target
\* of the cancelled child is where it was left, part of the way
C6_Witness ==
    \E id \in SchedIds :
        /\ AnyOver(id)
        /\ Root(id).i = 2
        /\ Root(id).kids[2].el >= 100
        /\ Vals(id).scale > 0
        /\ Vals(id).scale < 1000

\* C7: sequence(100, A(200), B(200)): A starts with the sequence; B starts,
\* and writes, only when 100 ms have passed since A completed, that is not
\* before 300 ms; the sequence completes with B, at 500 ms or, each of the
\* three stages ending with the frame that reaches its end, at most three
\* frames later
MaxDelta == CHOOSE m \in FrameDeltas : \A x \in FrameDeltas : x <= m

SeqStarted(id, k) == Len(Root(id).kids) >= k

C7_SequenceState ==
    \A id \in SchedIds :
        Runs(id, SequenceProgram) =>
            /\ SeqStarted(id, 1)
            /\ Root(id).kids[1].st = "run" => Root(id).kids[1].el = Root(id).el
            /\ SeqStarted(id, 2) => Root(id).kids[1].st = "done"
            /\ SeqStarted(id, 3) =>
                   /\ Root(id).kids[2].st = "done"
                   /\ Root(id).kids[2].el >= 100
                   /\ Root(id).el - Root(id).kids[3].el >= 300
            /\ Root(id).st = "done" <=>
                   (SeqStarted(id, 3) /\ Root(id).kids[3].st = "done")
            /\ Root(id).st = "done" =>
                   /\ Root(id).el >= 500
                   /\ Root(id).el < 500 + 3 * MaxDelta

C7_SequenceOrder ==
    /\ []C7_SequenceState
    /\ [][\A id \in SchedIds :
              (sched'[id].prog = SequenceProgram /\ Len(sched'[id].root.kids) < 3)
                  => sched'[id].vals.scale = Vals(id).scale]_vars

\* B is running, after the gap
C7_Witness ==
    \E id \in SchedIds :
        /\ Runs(id, SequenceProgram)
        /\ SeqStarted(id, 3)
        /\ Root(id).kids[3].st = "run"
        /\ Root(id).kids[3].el > 0
        /\ Vals(id).scale > 0

\* C8: loop(3, factory) invokes factory once at a time, each child being new
\* (elapsed 0, target back at `from`) and run to completion before the next
\* invocation, and completes with the third child; loop(factory) is never
\* completed, and is cancelled by destroy()
C8_LoopState ==
    \A id \in SchedIds :
        /\ Runs(id, LoopProgram) =>
               /\ Root(id).i \in 1..3
               /\ Root(id).st = "done" <=>
                      (Root(id).i = 3 /\ Root(id).kids[1].st = "done")
               /\ Root(id).st = "run" =>
                      /\ Root(id).kids[1].st = "run"
                      /\ Root(id).kids[1].el < 100
               /\ Vals(id).opacity = TimingValue(0, 1000, 100, Root(id).kids[1].el)
        /\ (Created(id) /\ sched[id].prog = LoopForeverProgram) =>
               /\ Root(id).st # "done"
               /\ sched[id].status = "Destroyed" => Root(id).st = "cancel"

C8_LoopCount ==
    /\ []C8_LoopState
    /\ [][\A id \in SchedIds :
              (Runs(id, LoopProgram) /\ sched'[id].root.st \in {"run", "done"}
               /\ sched'[id].root.i # Root(id).i)
                  => /\ sched'[id].root.i = Root(id).i + 1
                     /\ sched'[id].root.kids[1].el = 0
                     /\ sched'[id].vals.opacity = 0]_vars

\* the loop has completed after its third child
C8_Witness ==
    \E id \in SchedIds :
        /\ Runs(id, LoopProgram)
        /\ Root(id).st = "done"
        /\ Root(id).i = 3
        /\ sched[id].status = "Idle"

\* C9: waitUntil(flag, invert) completes only in a tick at which flag.value
\* differs from invert, and it does complete in the first tick at which it
\* does: a flag set after tick N and still set at tick N+1 completes the step
\* in tick N+1
IsWaitUntil(id) == Created(id) /\ sched[id].prog.kind = "waitUntil"

C9_WaitUntil ==
    [][\A id \in SchedIds :
          IsWaitUntil(id) =>
              /\ (Root(id).st # "done" /\ sched'[id].root.st = "done")
                     => Vals(id).ready = ~sched[id].prog.invert
              /\ ((\E d \in FrameDeltas : Tick(d))
                    /\ sched[id].status = "Running"
                    /\ Vals(id).ready = ~sched[id].prog.invert)
                     => sched'[id].root.st = "done"]_vars

\* the flag, false at mount, was set by the component and a tick has
\* completed the step
C9_Witness ==
    \E id \in SchedIds :
        /\ Created(id)
        /\ sched[id].prog = WaitUntilProgram
        /\ Root(id).st = "done"
        /\ sched[id].status = "Idle"
        /\ Vals(id).ready = TRUE

\* C10: a destroyed scheduler stays as it is under every later operation:
\* its state stays Destroyed, its steps are not resumed, the animation writes
\* none of its values, its subscribers are not notified, and a second
\* destroy() changes nothing
C10_DestroyTerminal ==
    [][\A id \in SchedIds :
          sched[id].status = "Destroyed" =>
              /\ sched'[id] = [sched[id] EXCEPT !.vals.ready = sched'[id].vals.ready]
              /\ id \notin notifyLog']_vars

\* the scheduler in use was destroyed while its animation was under way, and
\* the component has written to its state since
C10_Witness ==
    /\ getRef # 0
    /\ sched[getRef].status = "Destroyed"
    /\ Root(getRef).st = "cancel"
    /\ Root(getRef).kids # <<>>
    /\ sched[getRef].subs = {}
    /\ Vals(getRef).ready = TRUE

\* C11: after a recorded mutation of data, undo() makes data equal to its
\* value before that mutation and makes canRedo true; a redo() after it
\* makes data, canUndo and canRedo what they were right after the mutation
Recorded(k) == historyCache'[k].currentIndex = historyCache[k].currentIndex + 1

C11_UndoRedo ==
    [][\A h \in DataHooks : \A n \in DataValues :
          (DataMutate(h, n) /\ Recorded(ContextId(h))) =>
              LET after == historyCache'[ContextId(h)]
                  undone == Undo(after)
                  redone == Redo(undone)
              IN /\ undone.currentContext = HookData(h)
                 /\ CanRedo(undone)
                 /\ redone.currentContext = after.currentContext
                 /\ CanUndo(redone) = CanUndo(after)
                 /\ CanRedo(redone) = CanRedo(after)]_vars

\* C12: right after a mutation that changes data, also one made after
\* undo() calls, canRedo is false, canUndo is true and data holds the
\* mutated value
C12_MutationTruncates ==
    [][\A h \in DataHooks : \A n \in DataValues :
          DataMutate(h, n) =>
              /\ ~HookCanRedo(h)'
              /\ HookCanUndo(h)'
              /\ HookData(h)' = n]_vars

\* C13: mounted instances with the same context key read the same data,
\* canUndo and canRedo whatever was done through any of them, and what is
\* done through an instance changes nothing for the instances of another key
SameContext(h, g) ==
    /\ dataHook[h].st = Mounted
    /\ dataHook[g].st = Mounted
    /\ ContextId(h) = ContextId(g)

DataOp(h) ==
    \/ \E n \in DataValues : DataMutate(h, n)
    \/ \E method \in DataMethods : DataCall(h, method)

C13_SharedByKey ==
    \A h \in DataHooks : \A g \in DataHooks :
        SameContext(h, g) =>
            /\ HookData(h) = HookData(g)
            /\ HookCanUndo(h) = HookCanUndo(g)
            /\ HookCanRedo(h) = HookCanRedo(g)

C13_SharedState ==
    /\ []C13_SharedByKey
    /\ [][\A h \in DataHooks : \A g \in DataHooks :
              (DataOp(h) /\ ContextId(g) # ContextId(h)) =>
                  /\ historyCache'[ContextId(g)] = historyCache[ContextId(g)]
                  /\ dataHook'[g] = dataHook[g]]_vars

\* the two instances of k1 are mounted, mutations were made and one was
\* undone; the instance of k2 has a history of its own
C13_Witness ==
    /\ \A h \in DataHooks : dataHook[h].st = Mounted
    /\ historyCache["k1"].historical = <<0, 1, 2>>
    /\ historyCache["k1"].currentIndex = 1
    /\ HookData(1) = 1
    /\ HookData(2) = 1
    /\ HookCanRedo(2)
    /\ historyCache["k2"].historical = <<0, 2>>
    /\ HookData(3) = 2
    /\ ~HookCanRedo(3)

\* C14: after setValue(v) on one instance of key k, that instance and every
\* other mounted instance of key k hold v
C14_SetValueShared ==
    [][\A h \in CacheHooks : \A value \in CacheValues :
          CacheSetValue(h, value) =>
              \A g \in CacheHooks :
                  (cacheHook[g].st = Mounted /\ CacheKey(g) = CacheKey(h)) =>
                      cacheHook'[g].storedValue = value]_vars

\* C15: setValue(c => c + 1) applies the function to the value the hook
\* holds: every call leaves the value one above it, so n calls from 0 leave n
C15_UpdaterOnCurrent ==
    [][\A h \in CacheHooks :
          CacheIncrement(h) =>
              cacheHook'[h].storedValue = cacheHook[h].storedValue + 1]_vars

\* C16: at mount the hook holds the value stored for its key if there is
\* one (0 included), and initialValue only if there is none
C16_MountReadsCache ==
    [][\A h \in CacheHooks :
          CacheMount(h) =>
              cacheHook'[h].storedValue =
                  IF CacheKey(h) \in DOMAIN cache THEN cache[CacheKey(h)]
                  ELSE CacheProps[h].initialValue]_vars

\* C17: setValue on an instance of key k1 never changes the value of a
\* mounted instance of another key
C17_OtherKeysUntouched ==
    [][\A h \in CacheHooks : \A g \in CacheHooks :
          /\ \/ \E value \in CacheValues : CacheSetValue(h, value)
             \/ CacheIncrement(h)
          /\ CacheKey(g) # CacheKey(h)
          => cacheHook'[g].storedValue = cacheHook[g].storedValue]_vars

\* C18: a dependency change while the previous promise is pending puts the
\* state back to pending; the later settlement of an earlier promise never
\* changes the tuple; a settled tuple is the outcome of the promise of the
\* latest dependencies; nothing changes the tuple after unmount
Latest(e) == e = Len(promises) /\ promises[e].deps = promiseHook.deps

C18_Reported ==
    promiseHook.state # Pending =>
        /\ promises # <<>>
        /\ promiseHook.state = Change(promises[Len(promises)])
        /\ Latest(Len(promises))

TupleOK(t) ==
    /\ t[2] \in {"pending", "rejected", "fulfilled"}
    /\ t[2] = "pending" => t[1] = Undefined /\ t[3] = Undefined
    /\ t[2] = "rejected" => t[1] = Undefined
    /\ t[2] = "fulfilled" => t[3] = Undefined

C19_TupleShape ==
    /\ TupleOK(promiseHook.state)
    /\ \A e \in 1..Len(promises) : TupleOK(Change(promises[e]))
    /\ (promiseHook.st = Mounted /\ promiseHook.loading) =>
           promiseHook.state = Pending

C20_Burst ==
    /\ Cardinality(timers) <= 1
    /\ Len(burst.invoked) <= 1
    /\ \A j \in 1..Len(burst.invoked) :
           burst.invoked[j] = burst.args /\ burst.age >= burst.delay
    /\ (debounceHook.st = Mounted /\ burst.calls > 0) =>
           (timers = {} <=> Len(burst.invoked) = 1)

C20_Debounced ==
    /\ []C20_Burst
    /\ [][\A id \in 1..MaxTimers :
              TimerFires(id) =>
                  /\ burst.age >= burst.delay
                  /\ burst'.invoked = <<burst.args>>
                  /\ timers' = {}]_vars

\* the function was called with "a", then with "b" before the timer of the
\* first call was due; the only invocation is the one with "b"
C20_Witness ==
    /\ debounceHook.st = Mounted
    /\ timerCount = 2
    /\ burst.calls = 2
    /\ burst.args = "b"
    /\ burst.invoked = <<"b">>
    /\ timers = {}

\* C21: effect is called only after the dependencies have stayed unchanged
\* for delay; a dependency change or an unmount before the timer is due
\* cancels that run: effect is called at most once between two dependency
\* changes and never for dependencies that have been superseded
C21_Settled ==
    /\ Cardinality(effectTimers) <= 1
    /\ Len(settle.runs) <= 1
    /\ \A j \in 1..Len(settle.runs) :
           settle.runs[j] = effectHook.deps /\ settle.age >= effectHook.delay
    /\ effectHook.st = Gone => effectTimers = {}

C21_DebouncedEffect ==
    /\ []C21_Settled
    /\ [][\A id \in 1..MaxEffectTimers :
              EffectTimerFires(id) =>
                  /\ effectHook.st = Mounted
                  /\ settle.age >= effectHook.delay
                  /\ settle'.runs = <<effectHook.deps>>]_vars

\* the dependency changed from d1 to d2 before the first timer was due; the
\* only call of effect is the one for d2
C21_Witness ==
    /\ effectHook.st = Mounted
    /\ effectCount = 2
    /\ effectHook.deps = "d2"
    /\ settle.runs = <<"d2">>
    /\ effectHook.destructor = "d2"
    /\ effectTimers = {}

\* C22: after any sequence of setValue calls with plain values, while every
\* write has reached localStorage, a mounted hook instance holds the last
\* value set for its key and localStorage holds the JSON text of that value
\* under the key
C22_LastValueSet ==
    \A h \in StorageHooks :
        /\ storageHook[h].st = Mounted
        /\ storageMode = "ok"
        /\ written[StorageKey(h)].set
        => /\ storageHook[h].storedValue = written[StorageKey(h)].value
           /\ localStorage[StorageKey(h)] =
                  ToJson(written[StorageKey(h)].value)

\* C23: a hook instance mounted after a setValue for its key starts with
\* the value set last, whether the write reached localStorage or the Map;
\* it starts with initialValue only if nothing was set for the key
C23_RecoveredAtMount ==
    [][\A h \in StorageHooks :
          StorageMount(h) =>
              storageHook'[h].storedValue =
                  IF written[StorageKey(h)].set
                  THEN written[StorageKey(h)].value
                  ELSE StorageProps[h].initialValue]_vars

\* C24: a destructor returned by the callback has been called before the
\* next execution of the callback, and every returned destructor has been
\* called once the component is unmounted
C24_DestructorsCalled ==
    \A j \in 1..Len(emitterRuns) :
        /\ emitterRuns[j].returned
        /\ j < Len(emitterRuns) \/ emitterHook.st = Gone
        => emitterRuns[j].called

\* C25: the hook instance has at most one handler registered on the scope,
\* the one of its last effect run, for the current event and isOnce; with
\* isOnce false it is registered all the time the component is mounted; when
\* the component is not mounted no handler is registered, and no emit after
\* unmount calls the callback
CurrentListener ==
    [event |-> subscribeHook.event, handler |-> subscribeHook.handler,
     once |-> subscribeHook.isOnce]

C25_Registered ==
    /\ Cardinality(registry) <= 1
    /\ subscribeHook.st = Mounted => registry \subseteq {CurrentListener}
    /\ (subscribeHook.st = Mounted /\ ~subscribeHook.isOnce) =>
           registry = {CurrentListener}
    /\ subscribeHook.st # Mounted => registry = {}

C25_SubscribedWhileMounted ==
    /\ []C25_Registered
    /\ [][subscribeHook.st = Gone => subCalls' = subCalls]_vars

\* the component was subscribed with isOnce to e1, then rendered with e2 and
\* isOnce false; e2 was emitted and called the callback; the handler of the
\* last effect run is the only listener
C25_Witness ==
    /\ subscribeHook.st = Mounted
    /\ handlerCount = 2
    /\ subscribeHook.event = "e2"
    /\ registry = {[event |-> "e2", handler |-> 2, once |-> FALSE]}
    /\ subCalls = 1

\* C26: every assignment to ref.current runs effect exactly once, with the
\* assigned value, after the cleanup returned by the previous run of effect
\* has been called; no cleanup is called twice; reading ref.current gives
\* the value assigned last
C26_Runs ==
    /\ \A j \in 1..Len(observerRuns) :
           /\ observerRuns[j].cleanups <= 1
           /\ observerRuns[j].cleanups = 1 => observerRuns[j].returned
           /\ (j < Len(observerRuns) /\ observerRuns[j].returned) =>
                  observerRuns[j].cleanups = 1
    /\ observerRuns # <<>> =>
           observerHook.current = observerRuns[Len(observerRuns)].value

C26_AssignRunsEffect ==
    /\ []C26_Runs
    /\ [][\A v \in RefValues : \A r \in BOOLEAN :
              ObserverAssign(v, r) =>
                  /\ Len(observerRuns') = Len(observerRuns) + 1
                  /\ observerRuns'[Len(observerRuns')].value = v
                  /\ observerHook'.current = v]_vars

\* effect ran at mount and returned a cleanup, "x" was assigned and effect
\* returned nothing, then "y" was assigned: the cleanup of the first run was
\* called once, ref.current is "y"
C26_Witness ==
    /\ Len(observerRuns) = 3
    /\ observerRuns[1] = [value |-> "initial", returned |-> TRUE, cleanups |-> 1]
    /\ observerRuns[2] = [value |-> "x", returned |-> FALSE, cleanups |-> 0]
    /\ observerRuns[3].value = "y"
    /\ observerHook.current = "y"

\* C27: while the component is mounted the listener is attached to exactly
\* one target, the one held in ref.current, under the current event name,
\* and to no other (to none when ref.current is null)
C27_OneTarget ==
    listenerHook.st = Mounted =>
        listeners = AddEventListener({}, listenerHook.current,
                                     listenerHook.event)

\* C28: with a fixed interval useCountdown eventually returns format applied
\* to a difference <= 0; from then on no timeout is scheduled and the
\* returned value no longer changes
C28_Finished ==
    /\ countdownHook.st = Mounted
    /\ countdownHook.interval # Dynamic
    /\ ~Returned(countdownHook).formated
    /\ Returned(countdownHook).date.difference <= 0

C29_PausedUntilStart ==
    (/\ countdownHook.st = Mounted
     /\ countdownHook.startDate # Now
     /\ clock < countdownHook.startDate) =>
        Returned(countdownHook).date.difference
            = countdownHook.target - countdownHook.startDate

\* C30: every assignment to .value of the value of useSharedValue, or of a
\* field of useSharedValues, fires exactly one change notification, also
\* when the assigned value equals the current one, and .value is then the
\* assigned value; the notification requests a render while the component
\* is mounted and none after it unmounted
C30_RenderRequested(h) ==
    sharedHooks'[h].renders =
        sharedHooks[h].renders + (IF sharedHooks[h].st = Mounted THEN 1 ELSE 0)

C30_Changes ==
    /\ sharedValue.changes = sharedWrites["useSharedValue"]
    /\ sharedValues.changes = sharedWrites["useSharedValues"]

C30_OneChangePerWrite ==
    /\ []C30_Changes
    /\ [][/\ \A v \in SharedNumbers : SharedValueWrite(v) =>
                 /\ sharedValue'.value = v
                 /\ C30_RenderRequested("useSharedValue")
          /\ \A k \in SharedKeys : \A v \in SharedNumbers :
                 SharedValuesWrite(k, v) =>
                     /\ sharedValues'.current[k].value = v
                     /\ C30_RenderRequested("useSharedValues")]_vars

\* the value was written twice while mounted and once after unmount and
\* holds its initial value again; a field of the group was written while
\* mounted
C30_Witness ==
    /\ sharedWrites["useSharedValue"] = 3
    /\ sharedValue = [value |-> 0, changes |-> 3]
    /\ sharedHooks["useSharedValue"] = [st |-> Gone, renders |-> 2]
    /\ sharedValues.changes = 1
    /\ sharedValues.current["x"].value = 1
    /\ sharedHooks["useSharedValues"] = [st |-> Mounted, renders |-> 1]

\* C31: the function returned by useCallbackRef keeps its identity across
\* all renders, and a call made after a render has committed invokes the
\* callback passed in that render with the same arguments and returns its
\* result
C31_LatestCallback ==
    /\ [][callbackHook.fn > 0 => callbackHook'.fn = callbackHook.fn]_vars
    /\ [][\A args \in Args :
              (CallbackCall(args) /\ callbackHook.committed) =>
                  callbackCalls'[Len(callbackCalls')].result
                      = Invoke(callbackHook.callback, args)]_vars

\* mounted with "f", rendered with "g" and committed, then called with "a":
\* the call returned g("a")
C31_Witness ==
    /\ callbackHook.st = Mounted
    /\ callbackHook.committed
    /\ callbackHook.callback = "g"
    /\ Len(callbackCalls) = 2
    /\ callbackCalls[1].result = Invoke("f", "a")
    /\ callbackCalls[2].result = Invoke("g", "a")

\* C32: the margin helper expands a definition of 1, 2, 3 or 4 numbers like
\* the CSS shorthand, also for the value 0: [a] is a on all sides; [a,b] is
\* top = bottom = a, right = left = b; [a,b,c] is top a, right = left = b,
\* bottom c; [a,b,c,d] is top a, right b, bottom c, left d
C32_Shorthand(m) ==
    [top |-> m[1],
     right |-> IF Len(m) >= 2 THEN m[2] ELSE m[1],
     bottom |-> IF Len(m) >= 3 THEN m[3] ELSE m[1],
     left |-> IF Len(m) = 4 THEN m[4] ELSE IF Len(m) >= 2 THEN m[2] ELSE m[1]]

C32_MarginShorthand ==
    marginCall.called =>
        /\ marginCall.fromValue = C32_Shorthand(marginCall.value)
        /\ marginCall.toValue = C32_Shorthand(marginCall.to)

\* C33: in every state of a useData history the data exposed by the hook
\* equals the history entry at the current index; right after clear() it
\* equals the initial data
C33_DataIsCurrentEntry ==
    \A h \in DataHooks :
        (dataHook[h].st = Mounted /\ Has(ContextId(h))) =>
            LET hd == historyCache[ContextId(h)]
            IN Stringify(HookData(h))
                   = Stringify(hd.historical[hd.currentIndex + 1])

\* C34: the history is never empty and 0 <= currentIndex <= length - 1;
\* canUndo is currentIndex > 0 and canRedo is currentIndex < length - 1;
\* undo() without canUndo and redo() without canRedo change neither the
\* data nor the history
C34_IndexInHistory ==
    \A h \in DataHooks :
        dataHook[h].st = Mounted =>
            LET hd == historyCache[ContextId(h)]
            IN /\ Len(hd.historical) >= 1
               /\ 0 <= hd.currentIndex
               /\ hd.currentIndex <= Len(hd.historical) - 1
               /\ HookCanUndo(h) <=> hd.currentIndex > 0
               /\ HookCanRedo(h) <=> hd.currentIndex < Len(hd.historical) - 1

C34_Bounds ==
    /\ []C34_IndexInHistory
    /\ [][\A h \in DataHooks :
              /\ (DataCall(h, "undo") /\ ~HookCanUndo(h)) =>
                     /\ historyCache' = historyCache
                     /\ HookData(h)' = HookData(h)
              /\ (DataCall(h, "redo") /\ ~HookCanRedo(h)) =>
                     /\ historyCache' = historyCache
                     /\ HookData(h)' = HookData(h)]_vars

\* two mutations were recorded and undone: the index is back at 0 with
\* three entries, canUndo is false and canRedo true
C34_Witness ==
    /\ dataHook[1].st = Mounted
    /\ historyCache["k1"].currentIndex = 0
    /\ Len(historyCache["k1"].historical) = 3
    /\ ~HookCanUndo(1)
    /\ HookCanRedo(1)

\* C35: every operation that changes the data of a context (a mutation of
\* the data object, undo, redo, clear) notifies every callback registered
\* through onChange for the context, exactly once, and every mounted
\* instance sharing the context: its listener has stored the new data in
\* data.current
C35_Notifies ==
    [][\A h \in DataHooks :
          (DataOp(h) /\ HookData(h)' # HookData(h)) =>
              \A g \in DataHooks :
                  ContextId(g) = ContextId(h) =>
                      /\ dataHook[g].st = Mounted =>
                             dataHook'[g].current = HookData(g)'
                      /\ dataEvents.onChange[g] => dataEvents'.callback[g] = 1]_vars

\* C36: history.index follows the position in the browser history stack:
\* push increases it by 1, replace leaves it, back decreases it by 1,
\* forward increases it by 1, go(n) changes it by n
C36_IndexFollowsStack ==
    [][\A does \in Doings :
          /\ HistoryPush(does) => historyIndex' = historyIndex + 1
          /\ HistoryReplace(does) => historyIndex' = historyIndex
          /\ \A delta \in Deltas :
                 HistoryGo(delta, does) => historyIndex' = historyIndex + delta]_vars

\* C37: on a location change every listener registered when the change is
\* dispatched and not removed during the dispatch is called exactly once
C37_CalledOnce ==
    \A l \in HistoryListenerIds :
        (/\ \E j \in 1..Len(dispatched.before) : dispatched.before[j] = l
         /\ l \notin dispatched.removed) =>
            dispatched.called[l] = 1

\* C38: the function returned by history.listen removes the registration it
\* was created for; called when its listener is not registered, it leaves
\* the listener list as it is
C38_UnlistenOnlyOwn ==
    [][\A listener \in HistoryListenerIds :
          HistoryUnlisten(listener) =>
              historyListeners'.listeners
                  = SelectSeq(historyListeners.listeners,
                              LAMBDA l : l # listener)]_vars

====
